---- MODULE Spec2Model ----
(***************************************************************************)
(* A model of the ClawTrace plugin service (src/src/service.js): the       *)
(* start/done correlator, the sanitizer, the ledger writer with its tail   *)
(* and export readers, and the identity maps.                              *)
(*                                                                         *)
(* JavaScript values are modelled as tagged records:                       *)
(*   [t |-> "undef"], [t |-> "null"], [t |-> "str", v |-> "..."],          *)
(*   [t |-> "num", v |-> 42], [t |-> "bool", v |-> TRUE],                  *)
(*   [t |-> "arr", v |-> <<values>>],                                      *)
(*   [t |-> "obj", v |-> << <<key, value>>, ... >>]  (insertion order),    *)
(*   [t |-> "other", v |-> "string form"]   (function, symbol, bigint).    *)
(***************************************************************************)
EXTENDS Integers, Sequences, FiniteSets, TLC

VARIABLES
    now,            \* Date.now(), in ms
    recentStarts,   \* service.js:491, the queue of every (sessionKey, toolName)
    nextId,         \* history: number of observations pushStart has enqueued
    hist,           \* history: the current run of pushes and the pops after it
    ret,            \* the popRecentStart call, when it was the last call: what it found and returned
    sanIn,          \* the value handed to the sanitizer
    sanMax,         \* cfg.maxString of that sanitizer
    sanOut,         \* <<>> before the call, <<the value it returned>> after
    ledger,         \* the file at ledgerPath: whether it exists, and its text
    appended,       \* history: the entries emitLedger has appended to the file
    resp,           \* the last response of the recent-entries route
    exp,            \* the export request: its query, its read position, the lines written
    files,          \* sessions.json, session-meta.json and jobs.json as they are on disk
    sessionMap,     \* service.js:267
    sessionMetaMap, \* service.js:268
    cronJobNameMap, \* service.js:269
    retry,          \* whether the startup retry interval is running, service.js:294
    idOp,           \* history: the last step on the identity maps and what it answered
    timers,         \* whether sessionMapTimer and the retry cut-off timeout are pending, and whether stop() has run
    enableNotes,    \* service.js:339
    clients,        \* service.js:237: the registered observers
    conns,          \* the connections of the events route: open or closed, broken, bytes written
    started,        \* history: the before_tool_call events, in order
    emitted         \* history: the calls of emitLedger, in order

corrVars == <<now, recentStarts, nextId, hist, ret>>
sanVars == <<sanIn, sanMax, sanOut>>
ledgerVars == <<ledger, appended, resp>>
identVars == <<files, sessionMap, sessionMetaMap, cronJobNameMap, retry, idOp, timers>>
pipeVars == <<enableNotes, clients, conns, started, emitted>>
vars == <<corrVars, sanVars, ledgerVars, exp, identVars, pipeVars>>

-----------------------------------------------------------------------------
(* Program constants *)

QueueCap == 40          \* service.js:503
MaxAgeMs == 30000       \* service.js:508

(* Bounds of the model *)

MaxPushesCap == 41      \* pushStart calls in SpecCap
MaxJumpsCap == 1        \* clock jumps in SpecCap
MaxPushes == 2          \* pushStart calls in SpecCorr
MaxTicks == 3           \* clock ticks in SpecCorr
TickMs == 15000         \* the clock step of SpecCorr
MaxStringSmall == 6     \* a configured cfg.maxString, next to the default
MaxAppends == 3         \* emitLedger calls in SpecLedger
MaxTail == 4            \* the largest maxLines of tailLines in SpecLedger
MaxExportAppends == 1   \* emitLedger calls during the export of SpecExport

-----------------------------------------------------------------------------
(* Sequence helpers *)

Range(s) == {s[i] : i \in 1..Len(s)}

-----------------------------------------------------------------------------
(* JavaScript values *)

Undef == [t |-> "undef"]
Null == [t |-> "null"]
Str(s) == [t |-> "str", s |-> s]
Num(n) == [t |-> "num", n |-> n]
Bool(b) == [t |-> "bool", b |-> b]
Arr(a) == [t |-> "arr", a |-> a]
Obj(o) == [t |-> "obj", o |-> o]
Other(x) == [t |-> "other", x |-> x]

\* Boolean(v)
Truthy(v) ==
    CASE v.t \in {"undef", "null"} -> FALSE
      [] v.t = "str" -> v.s # ""
      [] v.t = "num" -> v.n # 0
      [] v.t = "bool" -> v.b
      [] OTHER -> TRUE

\* a || b
Or(a, b) == IF Truthy(a) THEN a ELSE b

\* Array.prototype.join(",") over the string forms
RECURSIVE joinComma(_)
\* String(v)
RECURSIVE JsString(_)
JsString(v) ==
    CASE v.t = "undef" -> "undefined"
      [] v.t = "null" -> "null"
      [] v.t = "str" -> v.s
      [] v.t = "num" -> ToString(v.n)
      [] v.t = "bool" -> (IF v.b THEN "true" ELSE "false")
      [] v.t = "arr" -> joinComma(v.a)
      [] v.t = "obj" -> "[object Object]"
      [] OTHER -> v.x

joinComma(a) ==
    IF Len(a) = 0 THEN ""
    ELSE LET h == IF a[1].t \in {"undef", "null"} THEN "" ELSE JsString(a[1])
         IN IF Len(a) = 1 THEN h ELSE h \o "," \o joinComma(Tail(a))

\* Object.entries(x) of an object or an array
entriesOf(x) ==
    CASE x.t = "obj" -> x.o
      [] x.t = "arr" -> [i \in 1..Len(x.a) |-> <<ToString(i - 1), x.a[i]>>]
      [] OTHER -> <<>>

\* x?.[k]: own property k of an object, undefined elsewhere
Get(x, k) ==
    IF x.t = "obj" /\ \E i \in 1..Len(x.o) : x.o[i][1] = k
    THEN x.o[CHOOSE i \in 1..Len(x.o) : x.o[i][1] = k][2]
    ELSE Undef

-----------------------------------------------------------------------------
(* Strings *)

UpperChars == "ABCDEFGHIJKLMNOPQRSTUVWXYZ"
LowerChars == "abcdefghijklmnopqrstuvwxyz"
Digits == "0123456789"

charAt(s, i) == SubSeq(s, i, i)
charsOf(s) == {charAt(s, i) : i \in 1..Len(s)}

\* \s of a regular expression, String.prototype.trim
WhiteSpace == {" ", "\t", "\n", "\r"}

UpperSet == charsOf(UpperChars)
LowerSet == charsOf(LowerChars)
DigitSet == charsOf(Digits)

lowerChar(c) ==
    IF c \in UpperSet
    THEN charAt(LowerChars, CHOOSE i \in 1..Len(UpperChars) : charAt(UpperChars, i) = c)
    ELSE c

RECURSIVE toLowerCase(_)
toLowerCase(s) ==
    IF Len(s) = 0 THEN "" ELSE lowerChar(charAt(s, 1)) \o toLowerCase(SubSeq(s, 2, Len(s)))

\* String.prototype.includes
includes(s, p) == \E i \in 1..(Len(s) - Len(p) + 1) : SubSeq(s, i, i + Len(p) - 1) = p

RECURSIVE trimStart(_)
trimStart(s) ==
    IF Len(s) > 0 /\ charAt(s, 1) \in WhiteSpace THEN trimStart(SubSeq(s, 2, Len(s))) ELSE s

RECURSIVE trimEnd(_)
trimEnd(s) ==
    IF Len(s) > 0 /\ charAt(s, Len(s)) \in WhiteSpace THEN trimEnd(SubSeq(s, 1, Len(s) - 1)) ELSE s

trim(s) == trimEnd(trimStart(s))

-----------------------------------------------------------------------------
(* The sanitizer, service.js:48-71 *)

maxStringDefault == 160     \* service.js:230

\* the alternatives of the default dropKeysRe, service.js:231
DropKeyWords ==
    {"token", "secret", "password", "authorization", "cookie", "apiKey", "apikey",
     "bearer", "accessToken", "refreshToken", "privateKey"}

\* dropKeysRe.test(k): an unanchored, case-insensitive match of one alternative
DropKeyWordsLower == {toLowerCase(w) : w \in DropKeyWords}
isSensitiveKey(k) == LET lower == toLowerCase(k) IN \E w \in DropKeyWordsLower : includes(lower, w)

SkMinLen == 10              \* service.js:54
SkChars == UpperSet \cup LowerSet \cup DigitSet \cup {"_", "-"}

\* /^sk-[A-Za-z0-9_-]{10,}$/.test(s)
isSkToken(s) ==
    /\ Len(s) >= 3 + SkMinLen
    /\ SubSeq(s, 1, 3) = "sk-"
    /\ \A i \in 4..Len(s) : charAt(s, i) \in SkChars

\* /^Bearer\s+\S+/i.test(s)
isBearer(s) ==
    /\ Len(s) >= 8
    /\ toLowerCase(SubSeq(s, 1, 6)) = "bearer"
    /\ \E k \in 8..Len(s) :
          /\ charAt(s, k) \notin WhiteSpace
          /\ \A j \in 7..(k - 1) : charAt(s, j) \in WhiteSpace

redactedLen(s) == "<redacted:" \o ToString(Len(s)) \o ">"

\* a variant that redacts from maxString on: >= for >
sanitizeStringFromMax(s, maxString) ==
    IF Len(s) >= maxString THEN redactedLen(s)
    ELSE IF isSkToken(s) THEN "<redacted:sk>"
    ELSE IF isBearer(s) THEN "<redacted:bearer>"
    ELSE s

\* the string branch of sanitizeAny, service.js:52-57
sanitizeString(s, maxString) ==
    IF Len(s) > maxString THEN redactedLen(s)
    ELSE IF isSkToken(s) THEN "<redacted:sk>"
    ELSE IF isBearer(s) THEN "<redacted:bearer>"
    ELSE s

\* the value sanitizeAny returns for a value that is none of the handled types
sanitizeOther(v, maxString) == Str(v.x)

RECURSIVE sanitizeEntries(_, _)
RECURSIVE sanitizeAny(_, _)

\* a variant that returns sequences as they are: no v.map(sanitizeAny)
sanitizeAnyNoArrays(v, maxString) ==
    CASE v.t \in {"undef", "null"} -> v
      [] v.t = "str" -> Str(sanitizeString(v.s, maxString))
      [] v.t \in {"num", "bool"} -> v
      [] v.t = "arr" -> v
      [] v.t = "obj" -> Obj(sanitizeEntries(v.o, maxString))
      [] OTHER -> sanitizeOther(v, maxString)

sanitizeAny(v, maxString) ==
    CASE v.t \in {"undef", "null"} -> v
      [] v.t = "str" -> Str(sanitizeString(v.s, maxString))
      [] v.t \in {"num", "bool"} -> v
      [] v.t = "arr" -> Arr([i \in 1..Len(v.a) |-> sanitizeAny(v.a[i], maxString)])
      [] v.t = "obj" -> Obj(sanitizeEntries(v.o, maxString))
      [] OTHER -> sanitizeOther(v, maxString)

\* for (const [k, val] of Object.entries(v)) { if (isSensitiveKey(k)) continue; ... }
sanitizeEntries(o, maxString) ==
    IF Len(o) = 0 THEN <<>>
    ELSE IF isSensitiveKey(o[1][1]) THEN sanitizeEntries(Tail(o), maxString)
    ELSE << <<o[1][1], sanitizeAny(o[1][2], maxString)>> >> \o sanitizeEntries(Tail(o), maxString)

-----------------------------------------------------------------------------
(* pickPaths, pickUrl and summarize, service.js:73-128 *)

PathKeys == {"path", "filePath", "file_path", "outPath", "jsonlPath"}
PathsMax == 6               \* service.js:88
SummaryMax == 160           \* service.js:107
SummaryKeep == 157          \* service.js:107

RECURSIVE flatten(_)
flatten(ss) == IF Len(ss) = 0 THEN <<>> ELSE ss[1] \o flatten(Tail(ss))

\* [...new Set(xs)]: the first occurrence of every element, in order
RECURSIVE unique(_)
unique(xs) ==
    IF Len(xs) = 0 THEN <<>>
    ELSE LET init == unique(SubSeq(xs, 1, Len(xs) - 1))
             last == xs[Len(xs)]
         IN IF last \in {init[i] : i \in 1..Len(init)} THEN init ELSE Append(init, last)

\* the walk of pickPaths, service.js:75-86
RECURSIVE walkPaths(_)
walkPaths(obj) ==
    IF obj.t \notin {"obj", "arr"} THEN <<>>
    ELSE LET es == entriesOf(obj)
             visit(k, v) ==
                 IF v.t = "str" /\ k \in PathKeys THEN <<v.s>>
                 ELSE IF v.t = "arr" THEN flatten([i \in 1..Len(v.a) |-> walkPaths(v.a[i])])
                 ELSE IF v.t \in {"obj", "null"} THEN walkPaths(v)
                 ELSE <<>>
         IN flatten([i \in 1..Len(es) |-> visit(es[i][1], es[i][2])])

pickPaths(args) ==
    LET u == unique(walkPaths(args))
    IN SubSeq(u, 1, IF Len(u) < PathsMax THEN Len(u) ELSE PathsMax)

\* the walk of pickUrl, service.js:93-99
RECURSIVE walkUrl(_)
walkUrl(obj) ==
    IF obj.t \notin {"obj", "arr"} THEN <<>>
    ELSE LET es == entriesOf(obj)
             visit(k, v) ==
                 IF v.t = "str" /\ (includes(toLowerCase(k), "url") \/ k = "targetUrl") THEN <<v.s>>
                 ELSE IF v.t \in {"obj", "arr", "null"} THEN walkUrl(v)
                 ELSE <<>>
         IN flatten([i \in 1..Len(es) |-> visit(es[i][1], es[i][2])])

\* candidates.find(Boolean)
pickUrl(args) ==
    LET c == walkUrl(args)
    IN IF \E i \in 1..Len(c) : c[i] # ""
       THEN Str(c[CHOOSE i \in 1..Len(c) : c[i] # "" /\ \A j \in 1..(i - 1) : c[j] = ""])
       ELSE Undef

summarize(toolName, params) ==
    CASE toolName = "exec" ->
            LET cmd == IF Truthy(Get(params, "command")) THEN JsString(Get(params, "command")) ELSE ""
            IN Str(IF Len(cmd) > SummaryMax THEN SubSeq(cmd, 1, SummaryKeep) \o "..." ELSE cmd)
      [] toolName \in {"write", "edit", "read"} ->
            Or(Get(params, "path"), Or(Get(params, "filePath"), Or(Get(params, "file_path"), Str(""))))
      [] toolName = "browser" ->
            LET action == Or(Get(params, "action"), Str(""))
                url == Or(Get(params, "targetUrl"), Str(""))
            IN Str(trim(JsString(action) \o (IF Truthy(url) THEN " " \o JsString(url) ELSE "")))
      [] toolName = "message" ->
            LET action == Or(Get(params, "action"), Str(""))
                channel == Or(Get(params, "channel"), Str(""))
            IN Str(trim(JsString(action) \o (IF Truthy(channel) THEN " " \o JsString(channel) ELSE "")))
      [] toolName = "cron" ->
            Str(trim(JsString(Or(Get(params, "action"), Str("")))))
      [] OTHER -> Str("")

-----------------------------------------------------------------------------
(* The ledger file, service.js:12-37 and 249-256.                           *)
(* The text of a file is a sequence of items: NL for a line break,          *)
(* [k |-> "json", e |-> v] for the text JSON.stringify gives for v, and     *)
(* [k |-> "raw", s |-> "..."] for text without a line break that is no JSON. *)
(* A line is the sequence of the items between two breaks; JSON.parse       *)
(* accepts the lines that are one "json" item.                              *)

NL == [k |-> "nl"]
JsonText(v) == [k |-> "json", e |-> v]
RawText(x) == [k |-> "raw", s |-> x]

NoFile == [exists |-> FALSE, txt |-> <<>>]
File(txt) == [exists |-> TRUE, txt |-> txt]

\* JSON.stringify(v) read back: properties that are undefined or functions are
\* left out, and such elements of an array become null
RECURSIVE jsonValue(_)
jsonValue(v) ==
    CASE v.t = "obj" ->
            LET kept == SelectSeq(v.o, LAMBDA e : e[2].t \notin {"undef", "other"})
            IN Obj([i \in 1..Len(kept) |-> <<kept[i][1], jsonValue(kept[i][2])>>])
      [] v.t = "arr" ->
            Arr([i \in 1..Len(v.a) |->
                    IF v.a[i].t \in {"undef", "other"} THEN Null ELSE jsonValue(v.a[i])])
      [] OTHER -> v

JSONstringify(v) == JsonText(jsonValue(v))

\* JSON.parse(line): whether it succeeds, and the value
JSONparse(line) ==
    IF Len(line) = 1 /\ line[1].k = "json"
    THEN [ok |-> TRUE, v |-> line[1].e]
    ELSE [ok |-> FALSE]

\* txt.split(/\r?\n/): the lines between the breaks, the empty ones included
splitLines(txt) ==
    LET breaks == SelectSeq([i \in 1..Len(txt) |-> i], LAMBDA i : txt[i] = NL)
    IN [n \in 1..(Len(breaks) + 1) |->
            SubSeq(txt, IF n = 1 THEN 1 ELSE breaks[n - 1] + 1,
                        IF n <= Len(breaks) THEN breaks[n] - 1 ELSE Len(txt))]

\* service.js:28-30
parseLines(txt) == SelectSeq(splitLines(txt), LAMBDA line : line # <<>>)

\* service.js:20-26: <<>> for null, <<text>> otherwise
safeReadFile(file) == IF file.exists THEN <<file.txt>> ELSE <<>>

\* a variant that returns the first lines: slice(0, maxLines)
tailLinesHead(file, maxLines) ==
    LET txt == safeReadFile(file)
    IN IF txt = <<>> THEN <<>>
       ELSE LET lines == parseLines(txt[1])
            IN SubSeq(lines, 1, IF maxLines < Len(lines) THEN maxLines ELSE Len(lines))

\* service.js:32-37
tailLines(file, maxLines) ==
    LET txt == safeReadFile(file)
    IN IF txt = <<>> THEN <<>>
       ELSE LET lines == parseLines(txt[1])
                from == IF Len(lines) - maxLines > 0 THEN Len(lines) - maxLines ELSE 0
            IN SubSeq(lines, from + 1, Len(lines))

\* a variant that writes nothing
appendFileSyncNothing(file, entry, ok) == file

\* fs.appendFileSync(ledgerPath, JSON.stringify(entry) + "\n"), service.js:251:
\* ok says whether the write succeeds
appendFileSync(file, entry, ok) ==
    IF ok THEN File(file.txt \o <<JSONstringify(entry), NL>>) ELSE file

TwoDigits(n) == ToString((n \div 10) % 10) \o ToString(n % 10)

\* service.js:12-14: the time of day of the ISO string follows the clock, to the
\* second; the date is that of the ledger format's example
nowIso(nowMs) ==
    "2025-02-04T19:" \o TwoDigits((nowMs \div 60000) % 60) \o ":"
        \o TwoDigits((nowMs \div 1000) % 60) \o "Z"

\* the characters of the model's strings in the order of their code units
CodeOrder == " -.0123456789:" \o UpperChars \o LowerChars
charCode(c) == CHOOSE i \in 1..Len(CodeOrder) : charAt(CodeOrder, i) = c

\* a < b of two strings: the first differing code unit decides, a proper prefix
\* sorts first
lessString(a, b) ==
    \E i \in 1..Len(b) :
        /\ \A j \in 1..(i - 1) : j <= Len(a) /\ charAt(a, j) = charAt(b, j)
        /\ i > Len(a) \/ (i <= Len(a) /\ charCode(charAt(a, i)) < charCode(charAt(b, i)))

\* the value of a string of decimal digits
RECURSIVE digitsValue(_, _)
digitsValue(s, acc) ==
    IF Len(s) = 0 THEN acc
    ELSE digitsValue(SubSeq(s, 2, Len(s)),
                     10 * acc + (CHOOSE d \in 0..9 : charAt(Digits, d + 1) = charAt(s, 1)))

\* parseInt(s, 10): leading white space, a sign, the longest run of digits
parseInt(s) ==
    LET t == trimStart(s)
        signed == Len(t) > 0 /\ charAt(t, 1) \in {"+", "-"}
        u == IF signed THEN SubSeq(t, 2, Len(t)) ELSE t
        run == Cardinality({i \in 1..Len(u) : \A j \in 1..i : charAt(u, j) \in DigitSet})
        magnitude == digitsValue(SubSeq(u, 1, run), 0)
    IN IF run = 0 THEN [nan |-> TRUE]
       ELSE [nan |-> FALSE, n |-> IF signed /\ charAt(t, 1) = "-" THEN 0 - magnitude ELSE magnitude]

Min(a, b) == IF a < b THEN a ELSE b
Max(a, b) == IF a > b THEN a ELSE b

\* a query parameter: <<>> when searchParams.get gives null, <<string>> otherwise
NoParam == <<>>
Param(x) == <<x>>
\* the truthiness of what searchParams.get returned
Given(param) == param # <<>> /\ param[1] # ""

ExportMaxN == 500000    \* service.js:373

\* service.js:373: <<>> for null, <<n>> otherwise
exportCount(nRaw) ==
    IF Given(nRaw)
    THEN LET parsed == parseInt(nRaw[1])
             number == IF parsed.nan THEN 0 ELSE parsed.n
         IN <<Max(1, Min(ExportMaxN, number))>>
    ELSE <<>>

RecentMaxN == 2000      \* service.js:356
RecentDefaultN == 200   \* service.js:356

NaN == [nan |-> TRUE]

\* service.js:356: Math.min(2000, Math.max(1, parseInt(get("n") || "200", 10)));
\* Math.max and Math.min give NaN when an argument is NaN
recentCount(nRaw) ==
    LET parsed == parseInt(IF Given(nRaw) THEN nRaw[1] ELSE ToString(RecentDefaultN))
    IN IF parsed.nan THEN NaN ELSE [nan |-> FALSE, n |-> Min(RecentMaxN, Max(1, parsed.n))]

\* tailLines(ledgerPath, n) with the n of the recent route, service.js:32-37 and
\* 357: with n NaN, Math.max(0, lines.length - NaN) is NaN and slice(NaN) is
\* slice(0), the whole array
recentLines(file, count) ==
    IF count.nan
    THEN IF safeReadFile(file) = <<>> THEN <<>> ELSE parseLines(safeReadFile(file)[1])
    ELSE tailLines(file, count.n)

\* service.js:398-406: whether the read loop skips the line
skippedBySince(line, sinceTs) ==
    /\ Given(sinceTs)
    /\ JSONparse(line).ok
    /\ LET ts == Get(JSONparse(line).v, "ts")
       IN ts.t = "str" /\ lessString(ts.s, sinceTs[1])

NoExport == [pc |-> "idle"]

InitLedgerIdle ==
    /\ ledger = NoFile
    /\ appended = <<>>
    /\ resp = [route |-> "none"]
    /\ exp = NoExport

-----------------------------------------------------------------------------
(* The identity maps, service.js:130-210 and 266-334.                       *)
(* A file on disk is Unreadable (missing, or no JSON: readFileSync or       *)
(* JSON.parse throws) or holds a JSON value. A map is an object value; the  *)
(* keys of the model's files are not integer-like, so that the order of     *)
(* Object.entries is the order of insertion.                                *)

Unreadable == [ok |-> FALSE]
Readable(v) == [ok |-> TRUE, v |-> v]

EmptyMap == Obj(<<>>)
\* Object.keys(m).length
keyCount(m) == Len(m.o)

\* out[k] = v
objSet(o, k, v) ==
    IF \E i \in 1..Len(o) : o[i][1] = k
    THEN [i \in 1..Len(o) |-> IF o[i][1] = k THEN <<k, v>> ELSE o[i]]
    ELSE Append(o, <<k, v>>)

WordChars == UpperSet \cup LowerSet \cup DigitSet \cup {"_"}
isWordAt(s, i) == i >= 1 /\ i <= Len(s) /\ charAt(s, i) \in WordChars

\* originLabel.match(/\bid:(\d+)\b/): <<>> for no match, <<m[1]>> otherwise
matchId(s) ==
    LET digitRun(i) == Cardinality({n \in i..Len(s) : \A j \in i..n : charAt(s, j) \in DigitSet})
        matchesAt(i) ==
            /\ i + 2 <= Len(s)
            /\ SubSeq(s, i, i + 2) = "id:"
            /\ ~isWordAt(s, i - 1)
            /\ digitRun(i + 3) >= 1
            /\ ~isWordAt(s, i + 3 + digitRun(i + 3))
    IN IF \E i \in 1..Len(s) : matchesAt(i)
       THEN LET i == CHOOSE k \in 1..Len(s) : matchesAt(k) /\ \A m \in 1..(k - 1) : ~matchesAt(m)
            IN <<SubSeq(s, i + 3, i + 2 + digitRun(i + 3))>>
       ELSE <<>>

\* service.js:130-158
loadSessionMap(file) ==
    IF ~file.ok THEN EmptyMap
    ELSE LET es == entriesOf(Or(file.v, EmptyMap))
             kept == SelectSeq(es, LAMBDA e : Truthy(Get(e[2], "sessionId")))
             entry(sessionKey, info) ==
                 LET originLabel == Get(Get(info, "origin"), "label")
                     deliveryTo == Get(Get(info, "deliveryContext"), "to")
                     lastTo == IF ~Truthy(deliveryTo) /\ originLabel.t = "str" /\ matchId(originLabel.s) # <<>>
                               THEN Str(matchId(originLabel.s)[1])
                               ELSE deliveryTo
                 IN Obj(<< <<"sessionId", Get(info, "sessionId")>>,
                           <<"channel", Or(Get(info, "channel"),
                                           Or(Get(Get(info, "origin"), "channel"),
                                              Get(Get(info, "deliveryContext"), "channel")))>>,
                           <<"lastTo", lastTo>>,
                           <<"label", Or(originLabel, Or(deliveryTo, Str(sessionKey)))>> >>)
         IN Obj([i \in 1..Len(kept) |-> <<kept[i][1], entry(kept[i][1], kept[i][2])>>])

\* service.js:160-178
loadSessionMetaMap(file) ==
    IF ~file.ok THEN EmptyMap
    ELSE LET es == entriesOf(Or(Get(file.v, "sessions"), EmptyMap))
             entry(info) ==
                 Obj(<< <<"label", Or(Get(info, "label"),
                                      Or(Get(info, "displayName"), Or(Get(info, "key"), Str(""))))>>,
                        <<"channel", Or(Get(info, "channel"), Null)>>,
                        <<"lastTo", Or(Get(info, "lastTo"), Null)>> >>)
         IN Obj([i \in 1..Len(es) |-> <<es[i][1], entry(es[i][2])>>])

\* the loops of loadCronJobNameMap over the jobs, service.js:189-193 and 198-202
RECURSIVE cronNames(_, _)
cronNames(es, useKey) ==
    IF Len(es) = 0 THEN <<>>
    ELSE LET init == cronNames(SubSeq(es, 1, Len(es) - 1), useKey)
             k == es[Len(es)][1]
             job == es[Len(es)][2]
             id == IF useKey THEN Or(Get(job, "id"), Str(k)) ELSE Get(job, "id")
             name == Get(job, "name")
         IN IF id.t = "str" /\ name.t = "str" /\ trim(name.s) # ""
            THEN objSet(init, id.s, Str(trim(name.s)))
            ELSE init

\* service.js:180-210
loadCronJobNameMap(file) ==
    IF ~file.ok THEN EmptyMap
    ELSE LET jobs == Get(file.v, "jobs")
         IN IF jobs.t = "arr" THEN Obj(cronNames(entriesOf(jobs), FALSE))
            ELSE IF jobs.t = "obj" THEN Obj(cronNames(entriesOf(jobs), TRUE))
            ELSE EmptyMap

\* a variant that takes whatever the reload gives: no Object.keys(next).length
keepLastGoodAlways(current, next) == next

\* if (next && Object.keys(next).length) map = next, service.js:274, 280, 286, 315
keepLastGood(current, next) == IF keyCount(next) > 0 THEN next ELSE current

\* service.js:270-288: the three maps after the refresh
refreshSessionMaps(fs, maps) ==
    [sessionMap |-> keepLastGood(maps.sessionMap, loadSessionMap(fs.sessions)),
     sessionMetaMap |-> keepLastGood(maps.sessionMetaMap, loadSessionMetaMap(fs.meta)),
     cronJobNameMap |-> keepLastGood(maps.cronJobNameMap, loadCronJobNameMap(fs.cron))]

\* sk.split(":cron:")[1]
afterCronMarker(sk) ==
    LET at(i) == i + 5 <= Len(sk) /\ SubSeq(sk, i, i + 5) = ":cron:"
        first == CHOOSE i \in 1..Len(sk) : at(i) /\ \A j \in 1..(i - 1) : ~at(j)
        rest == SubSeq(sk, first + 6, Len(sk))
        atRest(i) == i + 5 <= Len(rest) /\ SubSeq(rest, i, i + 5) = ":cron:"
    IN IF \E i \in 1..Len(rest) : atRest(i)
       THEN SubSeq(rest, 1, (CHOOSE i \in 1..Len(rest) : atRest(i) /\ \A j \in 1..(i - 1) : ~atRest(j)) - 1)
       ELSE rest

\* a variant that reloads session-meta.json before it looks anything up
resolveLabelEager(sessionKey, sessionId, fallback, meta, cron, metaFile) ==
    LET sk == JsString(Or(sessionKey, Str("")))
        name == Get(cron, afterCronMarker(sk))
        reloaded == keepLastGood(meta, loadSessionMetaMap(metaFile))
    IN IF Truthy(sessionId) /\ Truthy(Get(Get(reloaded, JsString(sessionId)), "label"))
       THEN [label |-> Get(Get(reloaded, JsString(sessionId)), "label"), meta |-> reloaded, reload |-> TRUE]
       ELSE IF includes(sk, ":cron:") /\ Truthy(name)
       THEN [label |-> Str("cron:" \o JsString(name)), meta |-> reloaded, reload |-> TRUE]
       ELSE [label |-> fallback, meta |-> reloaded, reload |-> TRUE]

\* service.js:301-322: the label, and sessionMetaMap after the call. sessionKey,
\* sessionId and fallback are values; meta is sessionMetaMap, cron is
\* cronJobNameMap and metaFile is session-meta.json
resolveLabel(sessionKey, sessionId, fallback, meta, cron, metaFile) ==
    LET sk == JsString(Or(sessionKey, Str("")))
        name == Get(cron, afterCronMarker(sk))
        next == loadSessionMetaMap(metaFile)
        reloaded == keepLastGood(meta, next)
    IN IF Truthy(sessionId) /\ Truthy(Get(Get(meta, JsString(sessionId)), "label"))
       THEN [label |-> Get(Get(meta, JsString(sessionId)), "label"), meta |-> meta, reload |-> FALSE]
       ELSE IF includes(sk, ":cron:") /\ Truthy(name)
       THEN [label |-> Str("cron:" \o JsString(name)), meta |-> meta, reload |-> FALSE]
       ELSE IF keyCount(next) > 0 /\ Truthy(sessionId)
               /\ Truthy(Get(Get(reloaded, JsString(sessionId)), "label"))
       THEN [label |-> Get(Get(reloaded, JsString(sessionId)), "label"), meta |-> reloaded, reload |-> TRUE]
       ELSE [label |-> fallback, meta |-> reloaded, reload |-> TRUE]

\* service.js:324-334
resolveChannel(sessionKey, sessionId, fallback, meta, sessions) ==
    LET sk == JsString(Or(sessionKey, Str("")))
    IN IF Truthy(sessionId) /\ Truthy(Get(Get(meta, JsString(sessionId)), "channel"))
       THEN Get(Get(meta, JsString(sessionId)), "channel")
       ELSE IF sk = "agent:main:main" /\ Truthy(Get(Get(sessions, sk), "channel"))
       THEN Get(Get(sessions, sk), "channel")
       ELSE IF includes(sk, ":cron:") THEN Str("cron")
       ELSE fallback

\* the session of a record, service.js:532-535, 567-570 and 443-446: what the
\* handler resolves for a sessionKey, and sessionMetaMap after it
resolveSession(sessionKey, sessions, meta, cron, metaFile) ==
    LET sessionInfo == IF Truthy(sessionKey) THEN Get(sessions, JsString(sessionKey)) ELSE Undef
        sessionId == Get(sessionInfo, "sessionId")
        l == resolveLabel(sessionKey, sessionId, Get(sessionInfo, "label"), meta, cron, metaFile)
        channel == resolveChannel(sessionKey, sessionId, Get(sessionInfo, "channel"), l.meta, sessions)
    IN [session |-> Obj(<< <<"key", sessionKey>>, <<"id", sessionId>>,
                           <<"label", l.label>>, <<"channel", channel>> >>),
        meta |-> l.meta, reload |-> l.reload]

NoFiles == [sessions |-> Unreadable, meta |-> Unreadable, cron |-> Unreadable]
NoIdOp == [kind |-> "none", reloaded |-> {}]

\* the timers after start, service.js:290-299: the refresh interval runs, and
\* the cut-off timeout is pending when the retry interval was started
StartTimers(retrying) == [sessionMapTimer |-> TRUE, retryTimeout |-> retrying, stopped |-> FALSE]

ClientIds == {"c1", "c2"}
\* the observer of the specifications that have one
SoloClients == {"c1"}
\* since and sinceAppended record how many records had been given to emitLedger
\* and how many had been appended when the observer connected
NoConn == [state |-> "none", broken |-> FALSE, out |-> <<>>, since |-> 0, sinceAppended |-> 0]

InitPipeIdle ==
    /\ enableNotes = TRUE
    /\ clients = {}
    /\ conns = [c \in ClientIds |-> NoConn]
    /\ started = <<>>
    /\ emitted = <<>>

InitIdentIdle ==
    /\ files = NoFiles
    /\ sessionMap = EmptyMap
    /\ sessionMetaMap = EmptyMap
    /\ cronJobNameMap = EmptyMap
    /\ retry = FALSE
    /\ idOp = NoIdOp
    /\ timers = StartTimers(retry)

-----------------------------------------------------------------------------
(* The correlator, service.js:491-518 *)

SessionKeys == {"s1", "s2", ""}
ToolNames == {"exec", "read", ""}

\* `!x` of a string: undefined and "" are both falsy; both are modelled as "".
Falsy(s) == s = ""

\* recentStarts.get(sessionKey)?.get(toolName), an absent queue read as empty
queueOf(rs, sessionKey, toolName) == rs[<<sessionKey, toolName>>]

\* a variant that drops the newest observations: q.pop() for q.shift()
shiftOverflowNewest(q) == IF Len(q) > QueueCap THEN SubSeq(q, 1, QueueCap) ELSE q

\* while (q.length > 40) q.shift()
RECURSIVE shiftOverflow(_)
shiftOverflow(q) == IF Len(q) > QueueCap THEN shiftOverflow(Tail(q)) ELSE q

\* a variant that drops one observation at most: if for while
dropTooOldOnce(q, nowMs, maxAgeMs) ==
    IF Len(q) > 0 /\ (nowMs - q[1].tsMs) > maxAgeMs THEN Tail(q) ELSE q

\* a variant that shifts nothing
dropTooOldNever(q, nowMs, maxAgeMs) == q

\* while (q.length && (now - q[0].tsMs) > maxAgeMs) q.shift()
\* the loop shifts the longest prefix of q whose observations are all too old
dropTooOld(q, nowMs, maxAgeMs) ==
    LET tooOld(i) == (nowMs - q[i].tsMs) > maxAgeMs
        shifted == Cardinality({i \in 1..Len(q) : \A j \in 1..i : tooOld(j)})
    IN SubSeq(q, shifted + 1, Len(q))

\* service.js:493-506; id is the history number of the observation
pushStart(rs, sessionKey, toolName, params, nowMs, id) ==
    IF Falsy(sessionKey) \/ Falsy(toolName) THEN rs
    ELSE [rs EXCEPT ![<<sessionKey, toolName>>] =
            shiftOverflow(Append(@, [id |-> id,
                                     tsMs |-> nowMs,
                                     summary |-> summarize(toolName, params),
                                     paths |-> pickPaths(params),
                                     url |-> pickUrl(params)]))]

\* a variant that takes the newest observation: q.pop() for q.shift()
popRecentStartNewest(rs, sessionKey, toolName, nowMs, maxAgeMs) ==
    LET q == queueOf(rs, sessionKey, toolName)
        fresh == dropTooOld(q, nowMs, maxAgeMs)
    IN IF Len(fresh) = 0
       THEN [rs |-> [rs EXCEPT ![<<sessionKey, toolName>>] = fresh], st |-> <<>>]
       ELSE [rs |-> [rs EXCEPT ![<<sessionKey, toolName>>] = SubSeq(fresh, 1, Len(fresh) - 1)],
             st |-> <<fresh[Len(fresh)]>>]

\* a variant that looks in the session's queue of "exec" whatever the tool
popRecentStartAnyTool(rs, sessionKey, toolName, nowMs, maxAgeMs) ==
    LET q == queueOf(rs, sessionKey, "exec")
        fresh == dropTooOld(q, nowMs, maxAgeMs)
    IN IF Len(q) = 0 THEN [rs |-> rs, st |-> <<>>]
       ELSE IF Len(fresh) = 0
       THEN [rs |-> [rs EXCEPT ![<<sessionKey, "exec">>] = fresh], st |-> <<>>]
       ELSE [rs |-> [rs EXCEPT ![<<sessionKey, "exec">>] = Tail(fresh)], st |-> <<fresh[1]>>]

\* service.js:508-518: the queues after the call and what it returns,
\* <<>> for nothing and <<observation>> otherwise
popRecentStart(rs, sessionKey, toolName, nowMs, maxAgeMs) ==
    LET q == queueOf(rs, sessionKey, toolName)
        fresh == dropTooOld(q, nowMs, maxAgeMs)
    IN IF Len(q) = 0 THEN [rs |-> rs, st |-> <<>>]
       ELSE IF Len(fresh) = 0
       THEN [rs |-> [rs EXCEPT ![<<sessionKey, toolName>>] = fresh], st |-> <<>>]
       ELSE [rs |-> [rs EXCEPT ![<<sessionKey, toolName>>] = Tail(fresh)], st |-> <<fresh[1]>>]

Pairs == SessionKeys \X ToolNames
NoRet == [called |-> FALSE]
NoHist == [run |-> 0, popped |-> FALSE, pops |-> 0, clean |-> TRUE, fresh |-> TRUE]
NoRun == [NoHist EXCEPT !.clean = FALSE]

InitSanIdle ==
    /\ sanIn = Undef
    /\ sanMax = maxStringDefault
    /\ sanOut = <<>>

InitCorrIdle ==
    /\ now = 0
    /\ recentStarts = [p \in Pairs |-> <<>>]
    /\ nextId = 0
    /\ hist = NoHist
    /\ ret = NoRet

InitCorrelator ==
    /\ InitSanIdle
    /\ InitLedgerIdle
    /\ InitIdentIdle
    /\ InitPipeIdle
    /\ InitCorrIdle

\* every observation of q is within the window at nowMs
allWithin(q, nowMs) == \A i \in 1..Len(q) : nowMs - q[i].tsMs <= MaxAgeMs

\* what a popRecentStart call leaves in ret: r is what the call returned, run the
\* number of pushStart calls since the call before it (0 when it follows a pop),
\* nextId the number of observations enqueued so far
retOf(sessionKey, toolName, r, runBefore) ==
    [called |-> TRUE, sessionKey |-> sessionKey, toolName |-> toolName, at |-> now,
     found |-> queueOf(recentStarts, sessionKey, toolName), st |-> r.st,
     left |-> queueOf(r.rs, sessionKey, toolName), run |-> runBefore, nextId |-> nextId]

-----------------------------------------------------------------------------
(* SpecCap: one (session, tool) pair driven up to the cap of its queue.     *)
(* hist follows the runs of pushStart calls that begin on an empty queue    *)
(* (clean): run counts the pushes of the run, popped says that a pop has    *)
(* followed them, pops counts these pops, and fresh says that each of them  *)
(* found only observations within the window. A push on a queue that a pop  *)
(* has left non-empty ends the run, and hist is NoRun until the next one.   *)

CapSession == "s1"
CapTool == "exec"
CapParams == Obj(<< <<"command", Str("ls -la")>> >>)
capQueue == queueOf(recentStarts, CapSession, CapTool)

\* a call of pushStart for the pair
CapPush ==
    /\ nextId < MaxPushesCap
    /\ recentStarts' = pushStart(recentStarts, CapSession, CapTool, CapParams, now, nextId + 1)
    /\ nextId' = nextId + 1
    /\ hist' = IF Len(capQueue) = 0 THEN [NoHist EXCEPT !.run = 1]
               ELSE IF hist.clean /\ ~hist.popped THEN [hist EXCEPT !.run = @ + 1]
               ELSE NoRun
    /\ ret' = NoRet
    /\ UNCHANGED <<now, sanVars, ledgerVars, exp, identVars, pipeVars>>

\* a call of popRecentStart for the pair, with the default maxAgeMs
CapPop ==
    LET r == popRecentStart(recentStarts, CapSession, CapTool, now, MaxAgeMs)
    IN /\ recentStarts' = r.rs
       /\ ret' = retOf(CapSession, CapTool, r, IF hist.popped THEN 0 ELSE hist.run)
       /\ hist' = IF hist.clean /\ hist.run > 0
                  THEN [hist EXCEPT !.popped = TRUE,
                                    !.pops = IF @ > hist.run THEN @ ELSE @ + 1,
                                    !.fresh = @ /\ allWithin(capQueue, now)]
                  ELSE hist
       /\ UNCHANGED <<now, nextId, sanVars, ledgerVars, exp, identVars, pipeVars>>

\* more than the match window passes while the queue is at its cap
CapJump ==
    /\ now < MaxJumpsCap * (MaxAgeMs + 1)
    /\ Len(capQueue) = QueueCap
    /\ now' = now + MaxAgeMs + 1
    /\ UNCHANGED <<recentStarts, nextId, hist, ret, sanVars, ledgerVars, exp, identVars, pipeVars>>

NextCap == CapPush \/ CapPop \/ CapJump

SpecCap == InitCorrelator /\ [][NextCap]_vars

\* C1: after k <= 40 pushStart calls for one pair on an empty queue, the j-th of
\* the popRecentStart calls that follow, each finding only observations within
\* the window, returns the j-th observation pushed, for j = 1..k, and the
\* (k+1)-th returns nothing.
C1_FifoWithinWindow ==
    (ret.called /\ hist.clean /\ hist.popped /\ hist.fresh /\ hist.run \in 1..QueueCap) =>
        IF hist.pops <= hist.run
        THEN /\ Len(ret.st) = 1
             /\ ret.st[1].id = nextId - hist.run + hist.pops
             /\ ret.st[1].summary = summarize(CapTool, CapParams)
        ELSE ret.st = <<>>

\* C1: a full queue of 40 observations has been popped in order and the 41st pop
\* has returned nothing
C1_Witness ==
    /\ ret.called /\ hist.clean /\ hist.fresh
    /\ hist.run = QueueCap /\ hist.pops = QueueCap + 1
    /\ ret.st = <<>> /\ ret.found = <<>>

\* the second observation of the run of pushes that the last pop followed
secondOfRun == ret.nextId - ret.run + 2

\* C3 as stated: no queue holds more than 40 observations, and the pop that
\* follows 41 pushes (here: a run of 41 that began on an empty queue) returns
\* the 2nd of them.
C3_Original ==
    /\ \A p \in Pairs : Len(recentStarts[p]) <= QueueCap
    /\ (ret.called /\ ret.run = QueueCap + 1) =>
           (Len(ret.st) = 1 /\ ret.st[1].id = secondOfRun)

\* C3 amended: no queue holds more than 40 observations; the pop that follows 41
\* pushes never returns the 1st of them, and returns the 2nd whenever the 2nd is
\* still within the window at the time of the pop.
C3_CapEvictsOldest ==
    /\ \A p \in Pairs : Len(recentStarts[p]) <= QueueCap
    /\ (ret.called /\ ret.run = QueueCap + 1) =>
           /\ Len(ret.found) = QueueCap
           /\ ret.found[1].id = secondOfRun
           /\ Len(ret.st) = 1 => ret.st[1].id > secondOfRun - 1
           /\ (ret.at - ret.found[1].tsMs <= MaxAgeMs) =>
                  (Len(ret.st) = 1 /\ ret.st[1].id = secondOfRun)

\* C3: a pop after 41 pushes has returned the 2nd of them
C3_Witness ==
    /\ ret.called /\ ret.run = QueueCap + 1
    /\ Len(ret.st) = 1 /\ ret.st[1].id = secondOfRun

-----------------------------------------------------------------------------
(* SpecCorr: every pair, few observations, a clock that crosses the window *)

\* the params of the before_tool_call of a tool
CorrParams(toolName) ==
    IF toolName = "read"
    THEN Obj(<< <<"path", Str("/tmp/a.txt")>> >>)
    ELSE Obj(<< <<"command", Str("ls -la")>> >>)

CorrPush(sessionKey, toolName) ==
    /\ nextId < MaxPushes
    /\ recentStarts' = pushStart(recentStarts, sessionKey, toolName, CorrParams(toolName), now, nextId + 1)
    /\ nextId' = IF recentStarts' = recentStarts THEN nextId ELSE nextId + 1
    /\ ret' = NoRet
    /\ UNCHANGED <<now, hist, sanVars, ledgerVars, exp, identVars, pipeVars>>

CorrPop(sessionKey, toolName) ==
    LET r == popRecentStart(recentStarts, sessionKey, toolName, now, MaxAgeMs)
    IN /\ recentStarts' = r.rs
       /\ ret' = retOf(sessionKey, toolName, r, 0)
       /\ UNCHANGED <<now, nextId, hist, sanVars, ledgerVars, exp, identVars, pipeVars>>

Tick ==
    /\ now < MaxTicks * TickMs
    /\ now' = now + TickMs
    /\ UNCHANGED <<recentStarts, nextId, hist, ret, sanVars, ledgerVars, exp, identVars, pipeVars>>

NextCorr ==
    \/ \E s \in SessionKeys, t \in ToolNames : CorrPush(s, t)
    \/ \E s \in SessionKeys, t \in ToolNames : CorrPop(s, t)
    \/ Tick

SpecCorr == InitCorrelator /\ [][NextCorr]_vars

\* C2: popRecentStart never returns an observation older than maxAgeMs at the
\* time of the call, and when every observation it finds is older than that it
\* returns nothing and leaves the queue empty.
C2_NeverReturnsStale ==
    ret.called =>
        /\ Len(ret.st) = 1 => ret.at - ret.st[1].tsMs <= MaxAgeMs
        /\ (\A i \in 1..Len(ret.found) : ret.at - ret.found[i].tsMs > MaxAgeMs) =>
               (ret.st = <<>> /\ ret.left = <<>>)

\* C2: a pop has found two observations, both older than the window, and has
\* returned nothing
C2_Witness ==
    /\ ret.called /\ Len(ret.found) = 2
    /\ \A i \in 1..Len(ret.found) : ret.at - ret.found[i].tsMs > MaxAgeMs
    /\ ret.st = <<>> /\ ret.left = <<>>

-----------------------------------------------------------------------------
(* SpecSan: the sanitizer applied to one value *)

\* the string of n characters c
RECURSIVE repeat(_, _)
repeat(c, n) ==
    IF n = 0 THEN ""
    ELSE LET half == repeat(c, n \div 2)
         IN half \o half \o (IF n % 2 = 1 THEN c ELSE "")

SanStrings ==
    {"", "ls -la", "/tmp/a.txt",
     repeat("y", maxStringDefault), repeat("x", maxStringDefault + 1),
     "sk-abcdef0123456789", "sk-short", "sk-abc def0123456789",
     "Bearer abc.def", "bearer \t xyz", "Bearer ", "Bearerabc"}

\* the strings of SanStrings that have secret-token shape
SanSecrets == {"sk-abcdef0123456789", "Bearer abc.def", "bearer \t xyz"}

SanLeaves ==
    {Str(x) : x \in SanStrings}
        \cup {Num(42), Bool(TRUE), Null, Undef, Other("function f() { }"),
              Other(repeat("z", maxStringDefault + 1))}

SanKeys == {"command", "key", "apiKey", "APIKEY", "Authorization", "x-access-token"}

\* the keys of SanInputs that dropKeysRe matches
SanSensitive == {"apiKey", "APIKEY", "Authorization", "x-access-token", "password"}

SanInputs ==
    SanLeaves
        \cup {Obj(<< <<k, l>>, <<"name", Str("n")>> >>) : k \in SanKeys, l \in SanLeaves}
        \cup {Arr(<<l, Obj(<< <<"password", l>>, <<"id", Num(1)>> >>)>>) : l \in SanLeaves}
        \cup {Obj(<< <<"items", Arr(<<Obj(<< <<k, Str("v")>>, <<"path", l>> >>)>>)>>,
                     <<"headers", Obj(<< <<k, Obj(<< <<"path", l>> >>)>> >>)>> >>) :
                 k \in SanKeys, l \in {Str("ls -la"), Str(repeat("x", maxStringDefault + 1)),
                                       Str("sk-abcdef0123456789")}}

InitSan ==
    /\ InitLedgerIdle
    /\ InitIdentIdle
    /\ InitPipeIdle
    /\ now = 0
    /\ recentStarts = [p \in Pairs |-> <<>>]
    /\ nextId = 0
    /\ hist = NoHist
    /\ ret = NoRet
    /\ sanIn \in SanInputs
    /\ sanMax \in {maxStringDefault, MaxStringSmall}
    /\ sanOut = <<>>

\* createSanitizer({ maxString, dropKeysRe }) applied to sanIn
Sanitize ==
    /\ sanOut = <<>>
    /\ sanOut' = <<sanitizeAny(sanIn, sanMax)>>
    /\ UNCHANGED <<sanIn, sanMax, corrVars, ledgerVars, exp, identVars, pipeVars>>

NextSan == Sanitize

SpecSan == InitSan /\ [][NextSan]_vars

keysOf(o) == [i \in 1..Len(o) |-> o[i][1]]

\* out has, at every depth, the keys of in that are not in SanSensitive, in the
\* order of in, and no other
RECURSIVE keysKept(_, _)
keysKept(in, out) ==
    CASE in.t = "obj" ->
            /\ out.t = "obj"
            /\ keysOf(out.o) = SelectSeq(keysOf(in.o), LAMBDA k : k \notin SanSensitive)
            /\ \A i \in 1..Len(out.o) : keysKept(Get(in, out.o[i][1]), out.o[i][2])
      [] in.t = "arr" ->
            /\ out.t = "arr"
            /\ Len(out.a) = Len(in.a)
            /\ \A i \in 1..Len(in.a) : keysKept(in.a[i], out.a[i])
      [] OTHER -> TRUE

\* C8: in the sanitizer's output every mapping, at any depth inside mappings and
\* sequences, has lost the keys that match the sensitive-key pattern, whatever
\* their case, and has kept all its other keys.
C8_SensitiveKeysDropped == sanOut # <<>> => keysKept(sanIn, sanOut[1])

\* C8: the sanitizer has dropped a key of a mapping that sits in a sequence, and
\* kept the other key of that mapping
C8_Witness ==
    /\ sanOut # <<>>
    /\ sanIn.t = "obj" /\ Get(sanIn, "items").t = "arr"
    /\ Get(Get(sanIn, "items").a[1], "APIKEY") # Undef
    /\ keysOf(Get(sanOut[1], "items").a[1].o) = <<"path">>

\* out has, wherever in has a string and out has kept its place, the marker
\* that carries the length of a string longer than max, and the string itself
\* when it is no longer than max and has no secret-token shape
RECURSIVE stringsRedacted(_, _, _)
stringsRedacted(in, out, max) ==
    CASE in.t = "str" ->
            IF Len(in.s) > max
            THEN out = Str("<redacted:" \o ToString(Len(in.s)) \o ">")
            ELSE in.s \notin SanSecrets => out = in
      [] in.t = "obj" ->
            /\ out.t = "obj"
            /\ \A i \in 1..Len(out.o) : stringsRedacted(Get(in, out.o[i][1]), out.o[i][2], max)
      [] in.t = "arr" ->
            /\ out.t = "arr"
            /\ Len(out.a) = Len(in.a)
            /\ \A i \in 1..Len(in.a) : stringsRedacted(in.a[i], out.a[i], max)
      [] OTHER -> TRUE

\* C9: a string longer than maxString, at any depth, is replaced by
\* <redacted:LEN> with LEN its length; a string of at most maxString characters
\* without secret-token shape is returned unchanged.
C9_LongStringsRedacted == sanOut # <<>> => stringsRedacted(sanIn, sanOut[1], sanMax)

\* C9: under the default maxString a string of 161 characters nested in a
\* mapping in a sequence has become <redacted:161>
C9_Witness ==
    /\ sanOut # <<>> /\ sanMax = maxStringDefault
    /\ sanIn.t = "obj" /\ Get(sanIn, "items").t = "arr"
    /\ Len(Get(Get(sanIn, "items").a[1], "path").s) = maxStringDefault + 1
    /\ Get(Get(sanOut[1], "items").a[1], "path") = Str("<redacted:161>")

-----------------------------------------------------------------------------
(* SpecLedger: appends to the ledger and bounded tails of it *)

\* the ledger files the service can find at start: none, an empty one, and
\* files of complete lines, some of them blank or no JSON
LedgerFiles ==
    {NoFile, File(<<>>),
     File(<<RawText("not json"), NL>>),
     File(<<JSONstringify(Obj(<< <<"ts", Str(nowIso(0))>>, <<"tool", Str("exec")>> >>)), NL,
            NL, RawText("{\"ts\":"), NL>>)}

\* an entry as the handlers build it, with the clock in its ts
LedgerEntry(tool, summary) ==
    Obj(<< <<"ts", Str(nowIso(now))>>,
           <<"source", Str("plugin")>>,
           <<"session", Obj(<< <<"key", Undef>>, <<"label", Undef>> >>)>>,
           <<"tool", Str(tool)>>,
           <<"summary", Str(summary)>>,
           <<"details", Obj(<< <<"durationMs", Undef>>, <<"result", Str("ok")>> >>)>> >>)

InitLedger ==
    /\ InitSanIdle
    /\ InitIdentIdle
    /\ InitPipeIdle
    /\ now = 0
    /\ recentStarts = [p \in Pairs |-> <<>>]
    /\ nextId = 0
    /\ hist = NoHist
    /\ ret = NoRet
    /\ ledger \in LedgerFiles
    /\ appended = <<>>
    /\ resp = [route |-> "none"]
    /\ exp = NoExport

\* emitLedger(entry), service.js:249-256, with no client connected
LedgerEmit(entry, ok) ==
    /\ Len(appended) < MaxAppends
    /\ ledger' = appendFileSync(ledger, entry, ok)
    /\ appended' = IF ok THEN Append(appended, entry) ELSE appended
    /\ UNCHANGED <<resp, corrVars, sanVars, exp, identVars, pipeVars>>

\* tailLines(ledgerPath, maxLines)
LedgerTail(maxLines) ==
    /\ resp' = [route |-> "tail", maxLines |-> maxLines, n |-> Len(appended),
                lines |-> tailLines(ledger, maxLines)]
    /\ UNCHANGED <<ledger, appended, corrVars, sanVars, exp, identVars, pipeVars>>

NextLedger ==
    \/ \E tool \in {"note", "exec"}, ok \in BOOLEAN : LedgerEmit(LedgerEntry(tool, "checked logs"), ok)
    \/ \E m \in 0..MaxTail : LedgerTail(m)

SpecLedger == InitLedger /\ [][NextLedger]_vars

\* the line of the ledger that holds an entry
lineOf(entry) == <<JsonText(jsonValue(entry))>>

\* C4: once N records have been appended, tailLines with limit M <= N returns
\* exactly M lines, the lines of the last M appended records in append order.
C4_TailReturnsLastM ==
    (resp.route = "tail" /\ resp.maxLines <= resp.n) =>
        /\ Len(resp.lines) = resp.maxLines
        /\ \A i \in 1..resp.maxLines :
              /\ resp.lines[i] = lineOf(appended[resp.n - resp.maxLines + i])
              /\ JSONparse(resp.lines[i]).ok
              /\ Get(JSONparse(resp.lines[i]).v, "tool") = Get(appended[resp.n - resp.maxLines + i], "tool")

\* C4: three records were appended to a file that held other lines, one append
\* in between failed or not, and a tail of 2 has returned two lines
C4_Witness ==
    /\ resp.route = "tail" /\ resp.n = 3 /\ resp.maxLines = 2
    /\ Len(parseLines(ledger.txt)) > 3
    /\ Len(resp.lines) = 2
    /\ Get(appended[2], "tool") # Get(appended[3], "tool")

-----------------------------------------------------------------------------
(* SpecExport: one request of the export route, its read loop running line  *)
(* by line while the ledger may be appended to                              *)

ExportRecord(atMs) ==
    JSONstringify(Obj(<< <<"ts", Str(nowIso(atMs))>>, <<"source", Str("plugin")>>,
                         <<"tool", Str("exec")>>, <<"summary", Str("ls -la")>> >>))

ExportFiles ==
    {NoFile,
     File(<<RawText("x"), NL, ExportRecord(0), NL>>),
     File(<<ExportRecord(0), NL, RawText("not json"), NL, ExportRecord(TickMs), NL, NL,
            ExportRecord(2 * TickMs), NL, JsonText(Obj(<< <<"ts", Num(5)>> >>)), NL,
            JsonText(Null), NL>>)}

ExportCounts == {NoParam, Param(""), Param("2"), Param("0"), Param("abc"), Param(" 3x")}
ExportSince ==
    {NoParam, Param(""), Param(nowIso(TickMs)), Param("2025-02-04T19:00:15.000Z"),
     Param("2025-02-04T19:00:3"), Param("2026")}

InitExport ==
    /\ InitSanIdle
    /\ InitIdentIdle
    /\ InitPipeIdle
    /\ now = 2 * TickMs
    /\ recentStarts = [p \in Pairs |-> <<>>]
    /\ nextId = 0
    /\ hist = NoHist
    /\ ret = NoRet
    /\ ledger \in ExportFiles
    /\ appended = <<>>
    /\ resp = [route |-> "none"]
    /\ exp = NoExport

\* the lines the read loop of the export gets from the file
exportLines == splitLines(ledger.txt)

\* the handler of the export route up to its first await, service.js:365-394;
\* with a count the response is complete, without the file the stream fails and
\* the catch ends the response with "\n"
ExportRequest(nRaw, sinceTs) ==
    /\ exp.pc = "idle"
    /\ exp' = LET n == exportCount(nRaw)
                  req == [nRaw |-> nRaw, sinceTs |-> sinceTs, n |-> n, pos |-> 1, closed |-> FALSE]
              IN IF n # <<>> /\ n[1] # 0
                 THEN req @@ [pc |-> "done", out |-> tailLines(ledger, n[1])]
                 ELSE IF ~ledger.exists
                 THEN req @@ [pc |-> "done", out |-> << <<>> >>]
                 ELSE req @@ [pc |-> "stream", out |-> <<>>]
    /\ UNCHANGED <<corrVars, sanVars, ledgerVars, identVars, pipeVars>>

\* one turn of for await (const line of rl), service.js:396-408
ExportLine ==
    /\ exp.pc = "stream"
    /\ exp.pos <= Len(exportLines)
    /\ LET line == exportLines[exp.pos]
       IN exp' = [exp EXCEPT !.pos = @ + 1,
                             !.out = IF line = <<>> \/ skippedBySince(line, exp.sinceTs)
                                     THEN @ ELSE Append(@, line)]
    /\ UNCHANGED <<corrVars, sanVars, ledgerVars, identVars, pipeVars>>

\* the stream is at the end of the file: res.end(), service.js:409
ExportEnd ==
    /\ exp.pc = "stream"
    /\ exp.pos > Len(exportLines)
    /\ exp' = [exp EXCEPT !.pc = "done"]
    /\ UNCHANGED <<corrVars, sanVars, ledgerVars, identVars, pipeVars>>

\* the client of the export disconnects while the read loop runs; the handler
\* registers no listener for it and the loop reads no such state,
\* service.js:391-412
ExportDisconnect ==
    /\ exp.pc = "stream"
    /\ ~exp.closed
    /\ exp' = [exp EXCEPT !.closed = TRUE]
    /\ UNCHANGED <<corrVars, sanVars, ledgerVars, identVars, pipeVars>>

\* emitLedger(entry) while the export runs
ExportEmit(ok) ==
    /\ Len(appended) < MaxExportAppends
    /\ ledger' = appendFileSync(ledger, LedgerEntry("note", "checked logs"), ok)
    /\ appended' = IF ok THEN Append(appended, LedgerEntry("note", "checked logs")) ELSE appended
    /\ UNCHANGED <<resp, corrVars, sanVars, exp, identVars, pipeVars>>

NextExport ==
    \/ \E nRaw \in ExportCounts, sinceTs \in ExportSince : ExportRequest(nRaw, sinceTs)
    \/ ExportLine
    \/ ExportEnd
    \/ ExportDisconnect
    \/ \E ok \in BOOLEAN : ExportEmit(ok)

SpecExport == InitExport /\ [][NextExport]_vars

\* the line is a parsable record whose ts sorts strictly before sinceTs
earlierRecord(line, sinceTs) ==
    /\ JSONparse(line).ok
    /\ Get(JSONparse(line).v, "ts").t = "str"
    /\ lessString(Get(JSONparse(line).v, "ts").s, sinceTs)

\* the response of an export that carries sinceTs: no record earlier than
\* sinceTs is written, and once the response has ended every unparsable
\* non-empty line of the ledger has been written
exportFiltered ==
    /\ \A i \in 1..Len(exp.out) : ~earlierRecord(exp.out[i], exp.sinceTs[1])
    /\ exp.pc = "done" =>
          \A line \in Range(parseLines(ledger.txt)) :
              ~JSONparse(line).ok => line \in Range(exp.out)

\* C5: an export request that carries sinceTs, whatever else it carries, writes
\* no parsable record whose ts sorts strictly before sinceTs, and writes every
\* unparsable non-empty line of the ledger.
C5_Original == (exp.pc # "idle" /\ Given(exp.sinceTs)) => exportFiltered

\* C5 for the requests without a count n: the filter and the pass-through of the
\* unparsable lines hold for them.
C5_FilterWithoutCount ==
    (exp.pc # "idle" /\ Given(exp.sinceTs) /\ ~Given(exp.nRaw)) => exportFiltered

\* C5: an export with sinceTs and no count has ended; it skipped a record and
\* wrote an unparsable line and a record that is not earlier than sinceTs
C5_Witness ==
    /\ exp.pc = "done" /\ Given(exp.sinceTs) /\ ~Given(exp.nRaw)
    /\ \E line \in Range(parseLines(ledger.txt)) : earlierRecord(line, exp.sinceTs[1])
    /\ \E i \in 1..Len(exp.out) : ~JSONparse(exp.out[i]).ok
    /\ \E i \in 1..Len(exp.out) :
          JSONparse(exp.out[i]).ok /\ Get(JSONparse(exp.out[i]).v, "ts").t = "str"

-----------------------------------------------------------------------------
(* SpecIdent: the identity maps under the periodic refresh, the startup     *)
(* retry, the on-demand reload of resolveLabel and rewrites of the files.   *)

SessionsFiles ==
    { Unreadable,
      Readable(Obj(<<>>)),
      Readable(Obj(<< <<"agent:main:main",
                        Obj(<< <<"sessionId", Str("sid1")>>, <<"channel", Str("telegram")>>,
                               <<"origin", Obj(<< <<"label", Str("Bob id:42")>> >>)>> >>)>>,
                      <<"agent:main:cron:job1", Obj(<< <<"sessionId", Str("sid2")>> >>)>>,
                      <<"ghost", Obj(<<>>)>> >>)),
      Readable(Obj(<< <<"agent:main:main",
                        Obj(<< <<"sessionId", Str("sid3")>>,
                               <<"deliveryContext",
                                 Obj(<< <<"to", Str("77")>>, <<"channel", Str("slack")>> >>)>> >>)>> >>)) }

MetaFiles ==
    { Unreadable,
      Readable(Obj(<< <<"sessions", Obj(<<>>)>> >>)),
      Readable(Obj(<< <<"sessions",
                        Obj(<< <<"sid1", Obj(<< <<"label", Str("Alice")>>,
                                                <<"channel", Str("whatsapp")>> >>)>> >>)>> >>)),
      Readable(Obj(<< <<"sessions",
                        Obj(<< <<"sid2", Obj(<< <<"displayName", Str("Nightly")>> >>)>>,
                               <<"sid3", Obj(<< <<"key", Str("k3")>>, <<"lastTo", Str("9")>> >>)>> >>)>> >>)) }

CronFiles ==
    { Unreadable,
      Readable(Obj(<< <<"jobs", Arr(<< Obj(<< <<"id", Str("job1")>>, <<"name", Str(" backup ")>> >>),
                                       Obj(<< <<"id", Str("job1")>>, <<"name", Str("backup2")>> >>),
                                       Obj(<< <<"id", Num(5)>>, <<"name", Str("x")>> >>) >>)>> >>)),
      Readable(Obj(<< <<"jobs", Obj(<< <<"jobA", Obj(<< <<"name", Str("sync")>> >>)>>,
                                       <<"jobB", Obj(<< <<"id", Str("job1")>>, <<"name", Str("  ")>> >>)>> >>)>> >>)) }

IdentSessionKeys == {Str("agent:main:main"), Str("agent:main:cron:job1"), Str("other"), Undef}

theMaps == [sessionMap |-> sessionMap, sessionMetaMap |-> sessionMetaMap,
            cronJobNameMap |-> cronJobNameMap]

\* service.js:267-269 and 293-299: the maps are loaded once and the retry
\* interval is started when session-meta.json gave nothing
InitIdent ==
    /\ InitCorrIdle
    /\ InitPipeIdle
    /\ InitSanIdle
    /\ InitLedgerIdle
    /\ files \in [sessions : SessionsFiles, meta : MetaFiles, cron : CronFiles]
    /\ sessionMap = loadSessionMap(files.sessions)
    /\ sessionMetaMap = loadSessionMetaMap(files.meta)
    /\ cronJobNameMap = loadCronJobNameMap(files.cron)
    /\ retry = (keyCount(sessionMetaMap) = 0)
    /\ idOp = NoIdOp
    /\ timers = StartTimers(retry)

identRest == <<corrVars, sanVars, ledgerVars, exp, pipeVars>>

\* another process rewrites one of the three files
IdentFileWrite(name, content) ==
    /\ files' = [files EXCEPT ![name] = content]
    /\ files' # files
    /\ idOp' = [kind |-> "write", reloaded |-> {}]
    /\ UNCHANGED <<sessionMap, sessionMetaMap, cronJobNameMap, retry, timers, identRest>>

\* setInterval(refreshSessionMaps, 15000), service.js:290
IdentRefresh ==
    LET m == refreshSessionMaps(files, theMaps)
    IN /\ timers.sessionMapTimer
       /\ sessionMap' = m.sessionMap
       /\ sessionMetaMap' = m.sessionMetaMap
       /\ cronJobNameMap' = m.cronJobNameMap
       /\ idOp' = [kind |-> "refresh", reloaded |-> {"sessions", "meta", "cron"}]
       /\ UNCHANGED <<files, retry, timers, identRest>>

\* the callback of the retry interval, service.js:294-297
IdentRetry ==
    LET m == refreshSessionMaps(files, theMaps)
    IN /\ retry
       /\ sessionMap' = m.sessionMap
       /\ sessionMetaMap' = m.sessionMetaMap
       /\ cronJobNameMap' = m.cronJobNameMap
       /\ retry' = (keyCount(m.sessionMetaMap) = 0)
       /\ idOp' = [kind |-> "retry", reloaded |-> {"sessions", "meta", "cron"}]
       /\ UNCHANGED <<files, timers, identRest>>

\* setTimeout(() => clearInterval(retry), 15000), service.js:298
IdentRetryTimeout ==
    /\ timers.retryTimeout
    /\ retry' = FALSE
    /\ timers' = [timers EXCEPT !.retryTimeout = FALSE]
    /\ idOp' = [kind |-> "timeout", reloaded |-> {}]
    /\ UNCHANGED <<files, sessionMap, sessionMetaMap, cronJobNameMap, identRest>>

\* a handler resolves the session of a record, service.js:532-535
IdentResolve(sessionKey) ==
    LET r == resolveSession(sessionKey, sessionMap, sessionMetaMap, cronJobNameMap, files.meta)
    IN /\ sessionMetaMap' = r.meta
       /\ idOp' = [kind |-> "resolve", reloaded |-> IF r.reload THEN {"meta"} ELSE {},
                   sessionKey |-> sessionKey, session |-> r.session,
                   changed |-> (r.meta # sessionMetaMap)]
       /\ UNCHANGED <<files, sessionMap, cronJobNameMap, retry, timers, identRest>>

NextIdent ==
    \/ \E c \in SessionsFiles : IdentFileWrite("sessions", c)
    \/ \E c \in MetaFiles : IdentFileWrite("meta", c)
    \/ \E c \in CronFiles : IdentFileWrite("cron", c)
    \/ IdentRefresh
    \/ IdentRetry
    \/ IdentRetryTimeout
    \/ \E k \in IdentSessionKeys : IdentResolve(k)

SpecIdent == InitIdent /\ [][NextIdent]_vars

\* the map after a reload attempt: the reloaded map when it has a key, the
\* current map otherwise
afterReload(name, current, next, after) ==
    IF name \in idOp'.reloaded
    THEN after = (IF next.o # <<>> THEN next ELSE current)
    ELSE after = current

\* C6: in every step on the identity maps (periodic refresh, startup retry,
\* on-demand reload in resolveLabel), each of the three maps is replaced by
\* the reloaded map as a whole when that map is non-empty and is left as it was
\* when the reload failed or gave an empty map or was not attempted; and when
\* the reload of session-meta fails or is empty, the label and the channel a
\* resolution answers are those of the maps as they were before it.
C6_StaleButValid ==
    [][ /\ afterReload("sessions", sessionMap, loadSessionMap(files.sessions), sessionMap')
        /\ afterReload("meta", sessionMetaMap, loadSessionMetaMap(files.meta), sessionMetaMap')
        /\ afterReload("cron", cronJobNameMap, loadCronJobNameMap(files.cron), cronJobNameMap')
        /\ (idOp'.kind = "resolve" /\ loadSessionMetaMap(files.meta).o = <<>>)
              => LET sid == Get(Get(sessionMap, JsString(idOp'.sessionKey)), "sessionId")
                     known == IF Truthy(idOp'.sessionKey) /\ Truthy(sid)
                              THEN Get(sessionMetaMap, JsString(sid)) ELSE Undef
                 IN /\ Truthy(Get(known, "label")) => Get(idOp'.session, "label") = Get(known, "label")
                    /\ Truthy(Get(known, "channel")) => Get(idOp'.session, "channel") = Get(known, "channel")
                    /\ idOp'.session = resolveSession(idOp'.sessionKey, sessionMap, sessionMetaMap,
                                                      cronJobNameMap, Unreadable).session
      ]_vars

\* a resolution tried the on-demand reload while session-meta.json was
\* unreadable or empty, and the non-empty map loaded earlier is still there
C6_Witness ==
    /\ idOp.kind = "resolve"
    /\ "meta" \in idOp.reloaded
    /\ loadSessionMetaMap(files.meta).o = <<>>
    /\ sessionMetaMap.o # <<>>
    /\ Truthy(Get(idOp.session, "id"))

-----------------------------------------------------------------------------
(* The event pipeline: the hooks, the note route and the events route,      *)
(* service.js:237-256 and 416-604.                                          *)
(* An event, a hook context and a request payload are values. A connection  *)
(* of the events route has a state ("none", "open", "closed"), is broken    *)
(* when a write to it throws, and keeps what was written to it.             *)

agentId == "main"                   \* ctx.agentId || "main", service.js:228
agentDisplayName == "Pi"            \* service.js:337

\* a session key or a tool name as the key of the correlator's maps
plain(v) == IF v.t = "str" THEN v.s ELSE ""

\* the agent of a record, service.js:540-543 and 582-585
agentOf(hookCtx) ==
    Obj(<< <<"id", Or(Get(hookCtx, "agentId"), Str("main"))>>,
           <<"name", IF Get(hookCtx, "agentId") = Str(agentId)
                     THEN Str(agentDisplayName)
                     ELSE Or(Get(hookCtx, "agentId"), Str(agentId))>> >>)

pathsValue(paths) == Arr([i \in 1..Len(paths) |-> Str(paths[i])])

\* the record of the after_tool_call handler, service.js:537-561
afterToolCallEntry(event, hookCtx, session, nowMs) ==
    LET sessionKey == Get(hookCtx, "sessionKey")
        toolName == Get(event, "toolName")
        params == sanitizeAny(Or(Get(event, "params"), Obj(<<>>)), maxStringDefault)
        summary == summarize(plain(toolName), params)
    IN Obj(<< <<"ts", Str(nowIso(nowMs))>>,
              <<"source", Str("plugin")>>,
              <<"agent", agentOf(hookCtx)>>,
              <<"session", session>>,
              <<"tool", toolName>>,
              <<"phase", Str("done")>>,
              <<"fingerprint", Str(JsString(Or(sessionKey, Str(""))) \o "|after|"
                                   \o JsString(toolName) \o "|" \o JsString(summary))>>,
              <<"summary", summary>>,
              <<"details", Obj(<< <<"durationMs", Get(event, "durationMs")>>,
                                  <<"error", Get(event, "error")>>,
                                  <<"paths", pathsValue(pickPaths(params))>>,
                                  <<"url", pickUrl(params)>>,
                                  <<"result", IF Truthy(Get(event, "error"))
                                              THEN Str("error") ELSE Str("ok")>> >>)>> >>)

\* event?.message?.message || event?.message || {}, service.js:572
messageOf(event) ==
    Or(Get(Get(event, "message"), "message"), Or(Get(event, "message"), Obj(<<>>)))

\* msg.toolName || event.toolName || hookCtx?.toolName || "", service.js:573
persistedToolName(event, hookCtx) ==
    Or(Get(messageOf(event), "toolName"),
       Or(Get(event, "toolName"), Or(Get(hookCtx, "toolName"), Str(""))))

\* a variant that always takes the tool name
summaryOfToolName(st, toolName) == toolName

\* st?.summary || toolName, service.js:595
summaryOf(st, toolName) ==
    IF st = <<>> THEN toolName ELSE Or(st[1].summary, toolName)

\* the record of the tool_result_persist handler, service.js:579-603;
\* st is what popRecentStart returned
toolResultPersistEntry(event, hookCtx, session, st, nowMs) ==
    LET msg == messageOf(event)
        toolName == persistedToolName(event, hookCtx)
        isError == Truthy(Get(msg, "isError"))
        durationMs == Get(Get(msg, "details"), "durationMs")
    IN Obj(<< <<"ts", Str(nowIso(nowMs))>>,
              <<"source", Str("plugin")>>,
              <<"agent", agentOf(hookCtx)>>,
              <<"session", session>>,
              <<"tool", toolName>>,
              <<"phase", Str("done")>>,
              <<"fingerprint", Or(Get(hookCtx, "toolCallId"), Get(msg, "toolCallId"))>>,
              <<"summary", summaryOf(st, toolName)>>,
              <<"details", Obj(<< <<"durationMs", durationMs>>,
                                  <<"paths", IF st = <<>> THEN Undef ELSE pathsValue(st[1].paths)>>,
                                  <<"url", IF st = <<>> THEN Undef ELSE st[1].url>>,
                                  <<"error", IF isError THEN Str("tool error") ELSE Undef>>,
                                  <<"result", IF isError THEN Str("error") ELSE Str("ok")>> >>)>> >>)

\* String(payload.text || "").trim(), service.js:435
noteTextUntrimmed(payload) == JsString(Or(Get(payload, "text"), Str("")))

noteText(payload) == trim(JsString(Or(Get(payload, "text"), Str(""))))

\* payload.sessionKey ? String(payload.sessionKey) : undefined, service.js:442
noteSessionKey(payload) ==
    IF Truthy(Get(payload, "sessionKey")) THEN Str(JsString(Get(payload, "sessionKey"))) ELSE Undef

\* the record of the note route, service.js:448-459
noteEntry(payload, session, nowMs) ==
    Obj(<< <<"ts", Str(nowIso(nowMs))>>,
           <<"source", Str("plugin")>>,
           <<"agent", Obj(<< <<"id", Str(agentId)>>, <<"name", Str(agentDisplayName)>> >>)>>,
           <<"session", session>>,
           <<"tool", Str("note")>>,
           <<"summary", Str(noteText(payload))>>,
           <<"details", Obj(<< <<"result", Str("ok")>> >>)>> >>)

\* what sseSend writes for an event and its data, service.js:240-243
sseFrame(event, data) ==
    << [k |-> "event", name |-> event], [k |-> "data", line |-> JSONstringify(data)],
       [k |-> "end"] >>

Comment(text) == [k |-> "comment", text |-> text]

\* sseSend(client, event, data), service.js:238-247: the connection after it
sseSend(conn, event, data) ==
    IF conn.broken THEN conn ELSE [conn EXCEPT !.out = @ \o sseFrame(event, data)]

\* a variant that publishes the record only when the append succeeded
emitLedgerAppendedOnly(entry, ok, call) ==
    /\ ledger' = appendFileSync(ledger, entry, ok)
    /\ appended' = IF ok THEN Append(appended, entry) ELSE appended
    /\ conns' = [c \in ClientIds |->
                    IF c \in clients /\ ok THEN sseSend(conns[c], "line", entry) ELSE conns[c]]
    /\ clients' = IF ok THEN {c \in clients : ~conns[c].broken} ELSE clients
    /\ emitted' = Append(emitted, [call EXCEPT !.entry = entry, !.ok = ok, !.at = now,
                                               !.reg = clients,
                                               !.dead = {c \in clients : conns[c].broken},
                                               !.to = {c \in clients : ok /\ ~conns[c].broken}])

\* a variant in which a failing write ends the publish: no observer is written
\* to and none is removed
emitLedgerAbortOnFailure(entry, ok, call) ==
    LET dead == {c \in clients : conns[c].broken}
    IN /\ ledger' = appendFileSync(ledger, entry, ok)
       /\ appended' = IF ok THEN Append(appended, entry) ELSE appended
       /\ conns' = [c \in ClientIds |->
                       IF c \in clients /\ dead = {} THEN sseSend(conns[c], "line", entry)
                       ELSE conns[c]]
       /\ clients' = clients
       /\ emitted' = Append(emitted, [call EXCEPT !.entry = entry, !.ok = ok, !.at = now,
                                                  !.reg = clients, !.dead = dead,
                                                  !.to = IF dead = {} THEN clients ELSE {}])

\* emitLedger(entry), service.js:249-256; ok says whether the append succeeds,
\* call is the history entry of the call
emitLedger(entry, ok, call) ==
    /\ ledger' = appendFileSync(ledger, entry, ok)
    /\ appended' = IF ok THEN Append(appended, entry) ELSE appended
    /\ conns' = [c \in ClientIds |->
                    IF c \in clients THEN sseSend(conns[c], "line", entry) ELSE conns[c]]
    /\ clients' = {c \in clients : ~conns[c].broken}
    /\ emitted' = Append(emitted, [call EXCEPT !.entry = entry, !.ok = ok, !.at = now,
                                               !.reg = clients,
                                               !.dead = {c \in clients : conns[c].broken},
                                               !.to = {c \in clients : ~conns[c].broken}])

Call(hook, event, hookCtx, session, st) ==
    [hook |-> hook, event |-> event, hookCtx |-> hookCtx, session |-> session, st |-> st,
     entry |-> Undef, ok |-> FALSE, at |-> 0, reg |-> {}, dead |-> {}, to |-> {}]

-----------------------------------------------------------------------------
(* SpecPipe: the hooks, notes, observers and the clock *)

MaxStarts == 2      \* before_tool_call events
MaxEmits == 1       \* calls of emitLedger
MaxPings == 1       \* heartbeats written to a connection
PipeTicks == 2      \* advances of the clock
PipeTickMs == 20000 \* the step of the clock

PipeFiles ==
    [sessions |-> Readable(Obj(<< <<"s1", Obj(<< <<"sessionId", Str("sid1")>>,
                                                 <<"channel", Str("telegram")>> >>)>> >>)),
     meta |-> Readable(Obj(<< <<"sessions",
                               Obj(<< <<"sid1", Obj(<< <<"label", Str("Alice")>> >>)>> >>)>> >>)),
     cron |-> Unreadable]

InSession == Obj(<< <<"sessionKey", Str("s1")>>, <<"agentId", Str("main")>> >>)
NoSession == Obj(<<>>)

BeforeEvents ==
    { Obj(<< <<"toolName", Str("exec")>>, <<"params", Obj(<< <<"command", Str("ls -la")>> >>)>> >>),
      Obj(<< <<"toolName", Str("exec")>>,
             <<"params", Obj(<< <<"apiKey", Str("sk-abcdef0123456789")>> >>)>> >>) }

AfterEvents ==
    { Obj(<< <<"toolName", Str("exec")>>, <<"params", Obj(<< <<"command", Str("ls -la")>> >>)>>,
             <<"durationMs", Num(42)>> >>),
      Obj(<< <<"toolName", Str("exec")>>, <<"params", Obj(<< <<"command", Str("curl")>> >>)>>,
             <<"durationMs", Num(7)>>, <<"error", Str("Bearer abc.def")>> >>) }

PersistEvents ==
    { Obj(<< <<"message", Obj(<< <<"toolName", Str("exec")>>, <<"isError", Bool(FALSE)>>,
                                 <<"details", Obj(<< <<"durationMs", Num(42)>> >>)>> >>)>> >>),
      Obj(<< <<"message", Obj(<< <<"message",
                                   Obj(<< <<"toolName", Str("exec")>>,
                                          <<"isError", Bool(TRUE)>> >>)>> >>)>> >>),
      Obj(<< <<"toolName", Str("read")>> >>) }

\* a request to the note route: its method and the payload its body parses to,
\* {} for a body that is no JSON
NoteRequests ==
    { [method |-> "POST", payload |-> Obj(<< <<"text", Str(" checked logs ")>> >>)],
      [method |-> "POST", payload |-> Obj(<< <<"text", Str("sk-abcdef0123456789")>>,
                                             <<"sessionKey", Str("s1")>> >>)],
      [method |-> "POST", payload |-> Obj(<<>>)],
      [method |-> "GET", payload |-> Obj(<<>>)] }

InitPipe ==
    /\ InitCorrIdle
    /\ InitSanIdle
    /\ InitLedgerIdle
    /\ files = PipeFiles
    /\ sessionMap = loadSessionMap(files.sessions)
    /\ sessionMetaMap = loadSessionMetaMap(files.meta)
    /\ cronJobNameMap = loadCronJobNameMap(files.cron)
    /\ retry = (keyCount(sessionMetaMap) = 0)
    /\ idOp = NoIdOp
    /\ timers = StartTimers(retry)
    /\ enableNotes = TRUE
    /\ clients = {}
    /\ conns = [c \in ClientIds |-> NoConn]
    /\ started = <<>>
    /\ emitted = <<>>

pipeIdle == <<hist, ret, sanVars, exp, files, sessionMap, cronJobNameMap, retry, idOp, timers, enableNotes>>

\* service.js:520-525
BeforeToolCall(event, hookCtx) ==
    LET sessionKey == Get(hookCtx, "sessionKey")
        toolName == Get(event, "toolName")
        params == sanitizeAny(Or(Get(event, "params"), Obj(<<>>)), maxStringDefault)
    IN /\ Len(started) < MaxStarts
       /\ recentStarts' = pushStart(recentStarts, plain(sessionKey), plain(toolName), params,
                                    now, Len(started) + 1)
       /\ nextId' = Len(started) + 1
       /\ started' = Append(started, [event |-> event, hookCtx |-> hookCtx, at |-> now])
       /\ UNCHANGED <<now, ledgerVars, sessionMetaMap, clients, conns, emitted, pipeIdle>>

\* a variant that consumes a start observation as tool_result_persist does
AfterToolCallConsuming(event, hookCtx, ok) ==
    LET sessionKey == Get(hookCtx, "sessionKey")
        r == resolveSession(sessionKey, sessionMap, sessionMetaMap, cronJobNameMap, files.meta)
        p == popRecentStart(recentStarts, plain(sessionKey), plain(Get(event, "toolName")),
                            now, MaxAgeMs)
    IN /\ sessionMetaMap' = r.meta
       /\ recentStarts' = p.rs
       /\ emitLedger(afterToolCallEntry(event, hookCtx, r.session, now), ok,
                     Call("after_tool_call", event, hookCtx, r.session, <<>>))
       /\ UNCHANGED <<now, nextId, resp, started, pipeIdle>>

\* service.js:528-562
AfterToolCall(event, hookCtx, ok) ==
    LET r == resolveSession(Get(hookCtx, "sessionKey"), sessionMap, sessionMetaMap,
                            cronJobNameMap, files.meta)
    IN /\ sessionMetaMap' = r.meta
       /\ emitLedger(afterToolCallEntry(event, hookCtx, r.session, now), ok,
                     Call("after_tool_call", event, hookCtx, r.session, <<>>))
       /\ UNCHANGED <<now, recentStarts, nextId, resp, started, pipeIdle>>

\* service.js:565-604
ToolResultPersist(event, hookCtx, ok) ==
    LET sessionKey == Get(hookCtx, "sessionKey")
        r == resolveSession(sessionKey, sessionMap, sessionMetaMap, cronJobNameMap, files.meta)
        toolName == persistedToolName(event, hookCtx)
        p == popRecentStart(recentStarts, plain(sessionKey), plain(toolName), now, MaxAgeMs)
    IN /\ sessionMetaMap' = r.meta
       /\ recentStarts' = p.rs
       /\ emitLedger(toolResultPersistEntry(event, hookCtx, r.session, p.st, now), ok,
                     Call("tool_result_persist", event, hookCtx, r.session, p.st))
       /\ UNCHANGED <<now, nextId, resp, started, pipeIdle>>

\* service.js:418-463
NoteRequest(req, ok) ==
    LET payload == req.payload
        sessionKey == noteSessionKey(payload)
        r == resolveSession(sessionKey, sessionMap, sessionMetaMap, cronJobNameMap, files.meta)
        rejected == IF ~enableNotes THEN <<403, "notes disabled">>
                    ELSE IF req.method # "POST" THEN <<405, "method not allowed">>
                    ELSE IF noteText(payload) = "" THEN <<400, "missing text">>
                    ELSE <<>>
        \* payload.text of null throws a TypeError, service.js:435
        threw == enableNotes /\ req.method = "POST" /\ payload.t = "null"
    IN /\ IF threw
          THEN /\ resp' = [route |-> "note", req |-> req, threw |-> "TypeError"]
               /\ UNCHANGED <<ledger, appended, sessionMetaMap, clients, conns, emitted>>
          ELSE IF rejected # <<>>
          THEN /\ resp' = [route |-> "note", req |-> req, status |-> rejected[1], body |-> rejected[2]]
               /\ UNCHANGED <<ledger, appended, sessionMetaMap, clients, conns, emitted>>
          ELSE /\ sessionMetaMap' = r.meta
               /\ emitLedger(noteEntry(payload, r.session, now), ok,
                             Call("note", payload, Obj(<<>>), r.session, <<>>))
               /\ resp' = [route |-> "note", req |-> req, status |-> 200,
                           body |-> JSONstringify(Obj(<< <<"ok", Bool(TRUE)>> >>))]
       /\ UNCHANGED <<now, recentStarts, nextId, started, pipeIdle>>

pipeRest == <<corrVars, sanVars, ledgerVars, exp, identVars, enableNotes, started, emitted>>

\* the events route, service.js:468-486
EventsConnect(c) ==
    /\ conns[c].state = "none"
    /\ conns' = [conns EXCEPT ![c] =
                    sseSend([state |-> "open", broken |-> FALSE, out |-> <<Comment("connected")>>,
                             since |-> Len(emitted), sinceAppended |-> Len(appended)],
                            "hello", Obj(<< <<"ok", Bool(TRUE)>> >>))]
    /\ clients' = clients \cup {c}
    /\ UNCHANGED pipeRest

\* the heartbeat, service.js:477-481
EventsPing(c) ==
    /\ conns[c].state = "open"
    /\ Cardinality({i \in 1..Len(conns[c].out) : conns[c].out[i] = Comment("ping")}) < MaxPings
    /\ ~conns[c].broken
    /\ conns' = [conns EXCEPT ![c].out = Append(@, Comment("ping"))]
    /\ UNCHANGED <<clients, pipeRest>>

\* req.on("close"), service.js:482-485
EventsClose(c) ==
    /\ conns[c].state = "open"
    /\ conns' = [conns EXCEPT ![c].state = "closed"]
    /\ clients' = clients \ {c}
    /\ UNCHANGED pipeRest

\* the connection of an observer breaks: writes to it throw from now on
EventsBreak(c) ==
    /\ conns[c].state = "open"
    /\ ~conns[c].broken
    /\ conns' = [conns EXCEPT ![c].broken = TRUE]
    /\ UNCHANGED <<clients, pipeRest>>

\* the clock advances
PipeTick ==
    /\ now < PipeTicks * PipeTickMs
    /\ now' = now + PipeTickMs
    /\ UNCHANGED <<recentStarts, nextId, hist, ret, sanVars, ledgerVars, exp, identVars, pipeVars>>

\* a request to the note route, while the history has room
PipeNote(req, ok) ==
    /\ Len(emitted) < MaxEmits
    /\ NoteRequest(req, ok)

\* an observer connects before the first event
PipeConnect(c) ==
    /\ started = <<>>
    /\ emitted = <<>>
    /\ EventsConnect(c)

PipeAfter(event, hookCtx, ok) ==
    /\ Len(emitted) < MaxEmits
    /\ AfterToolCall(event, hookCtx, ok)

PipePersist(event, hookCtx, ok) ==
    /\ Len(emitted) < MaxEmits
    /\ ToolResultPersist(event, hookCtx, ok)

NextPipe ==
    \/ \E e \in BeforeEvents : BeforeToolCall(e, InSession)
    \/ \E e \in AfterEvents, ok \in BOOLEAN : PipeAfter(e, InSession, ok)
    \/ \E e \in PersistEvents, ok \in BOOLEAN : PipePersist(e, InSession, ok)
    \/ \E ok \in BOOLEAN : PipePersist(CHOOSE e \in PersistEvents : TRUE, NoSession, ok)
    \/ \E q \in NoteRequests, ok \in BOOLEAN : PipeNote(q, ok)
    \/ \E c \in SoloClients : PipeConnect(c)
    \/ PipeTick

SpecPipe == InitPipe /\ [][NextPipe]_vars

\* the record of a call of emitLedger when the handler is given the event, the
\* hook context or the payload as the sanitizer returns it
sanitizedRecord(e) ==
    LET event == sanitizeAny(e.event, maxStringDefault)
        hookCtx == sanitizeAny(e.hookCtx, maxStringDefault)
    IN CASE e.hook = "after_tool_call" -> afterToolCallEntry(event, hookCtx, e.session, e.at)
         [] e.hook = "tool_result_persist" ->
                toolResultPersistEntry(event, hookCtx, e.session, e.st, e.at)
         [] OTHER -> noteEntry(event, e.session, e.at)

\* C7: the summary and the details of every record given to emitLedger (so
\* appended to the ledger and published to the observers), by after_tool_call,
\* tool_result_persist or the note route, are those the handler builds from the
\* sanitized event or payload: no value of the event or of the request body
\* reaches them other than through the sanitizer.
C7_Original ==
    \A i \in 1..Len(emitted) :
        /\ Get(emitted[i].entry, "summary") = Get(sanitizedRecord(emitted[i]), "summary")
        /\ Get(emitted[i].entry, "details") = Get(sanitizedRecord(emitted[i]), "details")

\* a record was appended whose details hold an error text of the event that
\* the sanitizer redacts
C7_Witness ==
    \E i \in 1..Len(emitted) :
        /\ emitted[i].ok
        /\ emitted[i].hook = "after_tool_call"
        /\ Get(Get(emitted[i].entry, "details"), "error") = Str("Bearer abc.def")
        /\ sanitizeAny(Str("Bearer abc.def"), maxStringDefault) = Str("<redacted:bearer>")

\* a call of emitLedger by tool_result_persist that consumed a start observation
joined(e) == e.hook = "tool_result_persist" /\ e.st # <<>>

\* the before_tool_call event of the observation a call consumed
startOf(e) == started[e.st[1].id]

\* the summary computed from the sanitized params of a before_tool_call event
computedSummary(b) ==
    summarize(plain(Get(b.event, "toolName")),
              sanitizeAny(Or(Get(b.event, "params"), Obj(<<>>)), maxStringDefault))

\* the lines of the ledger are the records of the given calls, in order
ledgerHolds(calls) ==
    /\ Len(parseLines(ledger.txt)) = Len(calls)
    /\ \A j \in 1..Len(calls) : parseLines(ledger.txt)[j] = <<JSONstringify(calls[j].entry)>>

\* what the record of a joined call holds besides its summary
joinedFields(e) ==
    LET rec == jsonValue(e.entry)
        msg == messageOf(e.event)
        b == startOf(e)
    IN /\ Get(b.hookCtx, "sessionKey") = Get(e.hookCtx, "sessionKey")
       /\ Get(b.event, "toolName") = persistedToolName(e.event, e.hookCtx)
       /\ e.at - b.at <= MaxAgeMs
       /\ Get(rec, "tool") = Get(b.event, "toolName")
       /\ Get(rec, "phase") = Str("done")
       /\ Get(Get(rec, "details"), "durationMs") = Get(Get(msg, "details"), "durationMs")
       /\ (Get(Get(rec, "details"), "result") = Str("ok")) <=> ~Truthy(Get(msg, "isError"))

\* The statement of C10 as written: the ledger holds one record for every
\* call, and the summary of a joined record is the computed summary.
C10_Original ==
    \A i \in 1..Len(emitted) :
        joined(emitted[i]) =>
            /\ ledgerHolds(emitted)
            /\ joinedFields(emitted[i])
            /\ Get(jsonValue(emitted[i].entry), "summary") = computedSummary(startOf(emitted[i]))

\* C10: when tool_result_persist consumes the start observation of a
\* before_tool_call of the same session and tool within the window, the ledger
\* holds one record for every call of emitLedger whose append succeeded and
\* nothing else (none from before_tool_call, none for a failed append); the
\* record has that tool name, phase "done", the duration of the message,
\* result "ok" exactly when the message is not flagged as an error, and as
\* summary the summary computed from the sanitized before-call params when that
\* summary is not empty, the tool name when it is.
C10_JoinedRecord ==
    \A i \in 1..Len(emitted) :
        joined(emitted[i]) =>
            /\ ledgerHolds(SelectSeq(emitted, LAMBDA e : e.ok))
            /\ joinedFields(emitted[i])
            /\ Get(jsonValue(emitted[i].entry), "summary") =
                  (IF Truthy(computedSummary(startOf(emitted[i])))
                   THEN computedSummary(startOf(emitted[i]))
                   ELSE Get(startOf(emitted[i]).event, "toolName"))

\* the scenario of the specification: exec "ls -la" started, then persisted
\* with a duration of 42 ms and no error, and the record appended
C10_Witness ==
    \E i \in 1..Len(emitted) :
        /\ joined(emitted[i])
        /\ emitted[i].ok
        /\ appended = <<emitted[i].entry>>
        /\ Get(emitted[i].entry, "summary") = Str("ls -la")
        /\ Get(Get(emitted[i].entry, "details"), "durationMs") = Num(42)

-----------------------------------------------------------------------------
(* SpecFanout: observers that connect, are pinged, break and close while    *)
(* notes are emitted                                                        *)

MaxFanoutEmits == 3     \* calls of emitLedger in SpecFanout

FanoutNote == [method |-> "POST", payload |-> Obj(<< <<"text", Str("checked logs")>> >>)]

FanoutEmit(ok) ==
    /\ Len(emitted) < MaxFanoutEmits
    /\ NoteRequest(FanoutNote, ok)

\* the completion signals of SpecFanout
FanoutAfterEvent == CHOOSE e \in AfterEvents : Get(e, "durationMs") = Num(42)
FanoutPersistEvent == CHOOSE e \in PersistEvents : Get(e, "toolName") = Str("read")

FanoutAfter(ok) ==
    /\ Len(emitted) < MaxFanoutEmits
    /\ AfterToolCall(FanoutAfterEvent, InSession, ok)

FanoutPersist(ok) ==
    /\ Len(emitted) < MaxFanoutEmits
    /\ ToolResultPersist(FanoutPersistEvent, InSession, ok)

NextFanout ==
    \/ \E ok \in BOOLEAN : FanoutEmit(ok)
    \/ \E ok \in BOOLEAN : FanoutAfter(ok)
    \/ \E ok \in BOOLEAN : FanoutPersist(ok)
    \/ \E c \in SoloClients : EventsConnect(c)
    \/ \E c \in SoloClients : EventsPing(c)
    \/ \E c \in SoloClients : EventsClose(c)
    \/ \E c \in SoloClients : EventsBreak(c)

SpecFanout == InitPipe /\ [][NextFanout]_vars

-----------------------------------------------------------------------------
(* SpecNote: requests to the note route, with notes enabled or disabled,    *)
(* while observers connect, break and close                                 *)

MaxNotes == 2       \* accepted notes in SpecNote

\* the requests of NoteRequests, a text of white space only and the body null
NoteSubmissions ==
    NoteRequests \cup
    { [method |-> "POST", payload |-> Obj(<< <<"text", Str("  ")>> >>)],
      [method |-> "POST", payload |-> Null] }

InitNote ==
    /\ InitCorrIdle
    /\ InitSanIdle
    /\ InitLedgerIdle
    /\ files = PipeFiles
    /\ sessionMap = loadSessionMap(files.sessions)
    /\ sessionMetaMap = loadSessionMetaMap(files.meta)
    /\ cronJobNameMap = loadCronJobNameMap(files.cron)
    /\ retry = (keyCount(sessionMetaMap) = 0)
    /\ idOp = NoIdOp
    /\ timers = StartTimers(retry)
    /\ enableNotes \in BOOLEAN
    /\ clients = {}
    /\ conns = [c \in ClientIds |-> NoConn]
    /\ started = <<>>
    /\ emitted = <<>>

NoteSubmit(req, ok) ==
    /\ Len(emitted) < MaxNotes
    /\ NoteRequest(req, ok)

NextNote ==
    \/ \E q \in NoteSubmissions, ok \in BOOLEAN : NoteSubmit(q, ok)
    \/ \E c \in SoloClients : EventsConnect(c)
    \/ \E c \in SoloClients : EventsClose(c)
    \/ \E c \in SoloClients : EventsBreak(c)

SpecNote == InitNote /\ [][NextNote]_vars

\* the data lines of the "line" events written to a connection, in order
RECURSIVE delivered(_)
delivered(out) ==
    IF Len(out) < 3 THEN <<>>
    ELSE IF out[1] = [k |-> "event", name |-> "line"] /\ out[2].k = "data"
    THEN <<out[2].line>> \o delivered(SubSeq(out, 4, Len(out)))
    ELSE delivered(Tail(out))

\* the records of those of the given calls that name c among obs(call), as lines
linesFor(c, calls, obs(_)) ==
    LET mine == SelectSeq(calls, LAMBDA e : c \in obs(e))
    IN [j \in 1..Len(mine) |-> JSONstringify(mine[j].entry)]

regOf(e) == e.reg
toOf(e) == e.to

\* what the record of an accepted note holds
noteFields(e) ==
    /\ Get(e.entry, "tool") = Str("note")
    /\ Get(e.entry, "summary") = Str(trim(JsString(Get(e.event, "text"))))
    /\ Get(e.entry, "summary") # Str("")
    /\ Get(Get(e.entry, "details"), "result") = Str("ok")

\* The statement of C11 as written: every accepted note appends one record,
\* and every observer registered at that moment has received it.
C11_Original ==
    /\ \A i \in 1..Len(emitted) : emitted[i].hook = "note" => noteFields(emitted[i])
    /\ ledgerHolds(emitted)
    /\ \A c \in ClientIds : delivered(conns[c].out) = linesFor(c, emitted, regOf)

\* C11: every accepted note submission (notes enabled, POST, non-empty trimmed
\* text) builds one record with tool "note", the trimmed text as summary and
\* details.result "ok"; the ledger holds that record when the append succeeds
\* and nothing for it when the append fails; and every observer registered at
\* that moment whose connection is not broken has been written the text
\* JSON.stringify gives for that record, the text of the appended line.
C11_AcceptedNote ==
    /\ \A i \in 1..Len(emitted) : emitted[i].hook = "note" => noteFields(emitted[i])
    /\ ledgerHolds(SelectSeq(emitted, LAMBDA e : e.ok))
    /\ \A i \in 1..Len(emitted) : emitted[i].to \subseteq emitted[i].reg
    /\ \A c \in ClientIds : delivered(conns[c].out) = linesFor(c, emitted, toOf)

\* a note with white space around its text was accepted and appended while an
\* observer was registered, and the observer has been written the appended line
C11_Witness ==
    \E i \in 1..Len(emitted), c \in ClientIds :
        /\ emitted[i].ok
        /\ Get(emitted[i].event, "text") = Str(" checked logs ")
        /\ Get(emitted[i].entry, "summary") = Str("checked logs")
        /\ c \in emitted[i].reg
        /\ parseLines(ledger.txt) = <<<<JSONstringify(emitted[i].entry)>>>>
        /\ delivered(conns[c].out) = <<JSONstringify(emitted[i].entry)>>

\* the status the note route owes a request that fails validation, 0 for a
\* request that passes
owedStatus(req) ==
    IF ~enableNotes THEN 403
    ELSE IF req.method # "POST" THEN 405
    ELSE IF req.payload.t # "obj" \/ trim(JsString(Or(Get(req.payload, "text"), Str("")))) = ""
    THEN 400
    ELSE 0

\* a step that answers a request to the note route
noteAnswered == resp' # resp /\ resp'.route = "note"

\* C13: a note submission that fails validation (notes disabled, a method
\* other than POST, a text that is missing or empty after trimming, a body
\* that is no JSON) is answered 403, 405 or 400, and the ledger and the stream
\* of every observer are as before.
C13_Original ==
    [][ (noteAnswered /\ owedStatus(resp'.req) # 0) =>
            /\ "status" \in DOMAIN resp'
            /\ resp'.status = owedStatus(resp'.req)
            /\ UNCHANGED <<ledger, conns, clients>> ]_vars

\* C13 for every body but null: the status is the owed one and nothing is
\* appended or published
C13_RejectedLeavesNoTrace ==
    [][ (noteAnswered /\ owedStatus(resp'.req) # 0 /\ resp'.req.payload.t # "null") =>
            /\ resp'.status = owedStatus(resp'.req)
            /\ UNCHANGED <<ledger, conns, clients>> ]_vars

-----------------------------------------------------------------------------
(* SpecRecent: requests to the recent route on ledgers of several sizes     *)

MaxRecentAppends == 2   \* appends in SpecRecent

\* a ledger of n complete lines
linesOfLedger(n) ==
    LET rec == ExportRecord(0)
    IN [i \in 1..(2 * n) |-> IF i % 2 = 1 THEN rec ELSE NL]

\* the sizes of the ledger at start: around the default and the largest count
RecentSizes == {0, 3, RecentDefaultN + 1, RecentMaxN + 1}

\* the n of the request: absent, empty, zero, negative, small, the largest
\* count, above it, and not a number
RecentParams ==
    {NoParam, Param(""), Param("0"), Param("-5"), Param("3"),
     Param(ToString(RecentMaxN)), Param(ToString(RecentMaxN + 1)), Param("abc"), Param("12abc")}

InitRecent ==
    /\ InitSanIdle
    /\ InitIdentIdle
    /\ InitPipeIdle
    /\ now = 0
    /\ recentStarts = [p \in Pairs |-> <<>>]
    /\ nextId = 0
    /\ hist = NoHist
    /\ ret = NoRet
    /\ ledger \in {NoFile} \cup {File(linesOfLedger(n)) : n \in RecentSizes}
    /\ appended = <<>>
    /\ resp = [route |-> "none"]
    /\ exp = NoExport

\* the handler of the recent route, service.js:352-361
RecentRequest(nRaw) ==
    /\ resp' = [route |-> "recent", n |-> nRaw, status |-> 200,
                size |-> Len(recentLines(ledger, NaN)),
                lines |-> recentLines(ledger, recentCount(nRaw))]
    /\ UNCHANGED <<ledger, appended, corrVars, sanVars, exp, identVars, pipeVars>>

RecentEmit(ok) ==
    /\ Len(appended) < MaxRecentAppends
    /\ LedgerEmit(LedgerEntry("note", "checked logs"), ok)

NextRecent ==
    \/ \E nRaw \in RecentParams : RecentRequest(nRaw)
    \/ \E ok \in BOOLEAN : RecentEmit(ok)

SpecRecent == InitRecent /\ [][NextRecent]_vars

\* C12: whatever the n of a request to the recent route (absent, empty, zero,
\* negative, above 2000, not a number) and whatever the size of the ledger,
\* the response holds at most 2000 lines, and at most 200 when n is absent.
C12_Original ==
    resp.route = "recent" =>
        /\ Len(resp.lines) <= RecentMaxN
        /\ resp.n = NoParam => Len(resp.lines) <= RecentDefaultN

\* C12 for an n that is absent, empty or starts with a number: at most 2000
\* lines, at most 200 when n is absent or empty, and the last lines of the
\* ledger
C12_NumericBounded ==
    (resp.route = "recent" /\ ~recentCount(resp.n).nan) =>
        /\ Len(resp.lines) <= RecentMaxN
        /\ ~Given(resp.n) => Len(resp.lines) <= RecentDefaultN
        /\ Len(resp.lines) = Min(resp.size, recentCount(resp.n).n)

\* a request with an n that is no number was answered on a ledger of more than
\* 2000 lines
C12_Witness ==
    /\ resp.route = "recent"
    /\ resp.n = Param("abc")
    /\ resp.size > RecentMaxN

-----------------------------------------------------------------------------
(* The "line" records of an observer, checked in SpecFanout *)

\* the lines of the records calls[from + 1], ..., in order
linesSince(calls, from) ==
    [j \in 1..(Len(calls) - from) |-> JSONstringify(calls[from + j].entry)]

\* the lines of the entries appended after the first from ones
appendedSince(from) ==
    [j \in 1..(Len(appended) - from) |-> JSONstringify(appended[from + j])]

\* The statement of C14 as written: what an observer that is still registered
\* has been delivered is what was appended since it connected.
C14_Original ==
    \A c \in clients :
        delivered(conns[c].out) = appendedSince(conns[c].sinceAppended)

\* C14: for any sequence of completion signals and notes, the "line" records
\* delivered to an observer that has stayed registered since it connected are
\* exactly the records given to emitLedger since then, in that order; they are
\* the records appended since then whenever every one of those appends
\* succeeded.
C14_DeliveredIsPublished ==
    \A c \in clients :
        /\ delivered(conns[c].out) = linesSince(emitted, conns[c].since)
        /\ (\A k \in (conns[c].since + 1)..Len(emitted) : emitted[k].ok) =>
                delivered(conns[c].out) = appendedSince(conns[c].sinceAppended)

\* an observer connected after a first record and has since been delivered a
\* completion signal's record and a note, one of them not appended
C14_Witness ==
    \E c \in clients :
        /\ conns[c].since = 1
        /\ Len(emitted) = 3
        /\ emitted[2].hook = "tool_result_persist"
        /\ emitted[3].hook = "note"
        /\ ~emitted[2].ok /\ emitted[3].ok
        /\ Len(delivered(conns[c].out)) = 2

-----------------------------------------------------------------------------
(* SpecInv: invocations of two tools in one session. Each is started by a   *)
(* before_tool_call and completed by a tool_result_persist; within a tool   *)
(* the completions come in the order of the starts. after_tool_call signals *)
(* and the clock interleave.                                                *)

MaxInvEmits == 3    \* records in SpecInv

InvStartEvents ==
    { Obj(<< <<"toolName", Str("exec")>>, <<"params", Obj(<< <<"command", Str("ls -la")>> >>)>> >>),
      Obj(<< <<"toolName", Str("read")>>, <<"params", Obj(<< <<"path", Str("/tmp/a")>> >>)>> >>) }

InvDoneEvents ==
    { Obj(<< <<"message", Obj(<< <<"toolName", Str("exec")>>, <<"isError", Bool(FALSE)>>,
                                 <<"details", Obj(<< <<"durationMs", Num(42)>> >>)>> >>)>> >>),
      Obj(<< <<"toolName", Str("read")>> >>) }

toolOfStart(b) == Get(b.event, "toolName")
toolOfCall(e) == persistedToolName(e.event, e.hookCtx)

\* the starts of a tool among the first k, and its completions among the first j
startsOf(tool, k) == {i \in 1..k : toolOfStart(started[i]) = tool}
donesOf(tool, j) ==
    {i \in 1..j : emitted[i].hook = "tool_result_persist" /\ toolOfCall(emitted[i]) = tool}

InvStart(event) == BeforeToolCall(event, InSession)

InvAfter(ok) ==
    /\ Len(emitted) < MaxInvEmits
    /\ AfterToolCall(FanoutAfterEvent, InSession, ok)

\* the completion of the oldest invocation of the tool that has not completed
InvDone(event, ok) ==
    /\ Len(emitted) < MaxInvEmits
    /\ LET tool == persistedToolName(event, InSession)
       IN Cardinality(donesOf(tool, Len(emitted))) < Cardinality(startsOf(tool, Len(started)))
    /\ ToolResultPersist(event, InSession, ok)

NextInv ==
    \/ \E e \in InvStartEvents : InvStart(e)
    \/ \E ok \in BOOLEAN : InvAfter(ok)
    \/ \E e \in InvDoneEvents, ok \in BOOLEAN : InvDone(e, ok)
    \/ PipeTick

SpecInv == InitPipe /\ [][NextInv]_vars

\* a step in which the after_tool_call handler ran
afterStep ==
    /\ Len(emitted') = Len(emitted) + 1
    /\ emitted'[Len(emitted')].hook = "after_tool_call"

\* the record of an after_tool_call is complete: tool, phase, summary, result
completeRecord(e) ==
    /\ Get(e.entry, "tool") = Get(e.event, "toolName")
    /\ Get(e.entry, "phase") = Str("done")
    /\ Get(e.entry, "summary").t = "str"
    /\ Get(e.entry, "ts").t = "str"
    /\ Get(Get(e.entry, "details"), "result")
          = (IF Truthy(Get(e.event, "error")) THEN Str("error") ELSE Str("ok"))

\* The statement of C15 as written: the handler appends one record and leaves
\* the queues as they were.
C15_Original ==
    [][ afterStep =>
            /\ recentStarts' = recentStarts
            /\ ledger' = File(ledger.txt \o <<JSONstringify(emitted'[Len(emitted')].entry), NL>>) ]_vars

\* C15: handling an after_tool_call signal builds one complete record, appends
\* it as one line when the append succeeds and appends nothing when it fails,
\* and leaves every correlator queue unchanged.
C15_AfterCallLeavesQueues ==
    [][ afterStep =>
            LET e == emitted'[Len(emitted')]
            IN /\ recentStarts' = recentStarts
               /\ completeRecord(e)
               /\ ledger' = IF e.ok THEN File(ledger.txt \o <<JSONstringify(e.entry), NL>>)
                            ELSE ledger ]_vars

\* an after_tool_call was handled and appended while a start observation was
\* pending, and the later tool_result_persist was joined with that observation
C15_Witness ==
    /\ Len(started) >= 1 /\ Len(emitted) >= 2
    /\ toolOfStart(started[1]) = Str("exec")
    /\ emitted[1].hook = "after_tool_call" /\ emitted[1].ok
    /\ started[1].at < emitted[1].at
    /\ emitted[2].hook = "tool_result_persist"
    /\ emitted[2].st # <<>>
    /\ emitted[2].st[1].id = 1

\* the invocation that the record emitted[j] of a tool_result_persist completes:
\* the start of the same tool with the same rank
invOf(j) ==
    LET tool == toolOfCall(emitted[j])
    IN CHOOSE k \in 1..Len(started) :
          /\ toolOfStart(started[k]) = tool
          /\ Cardinality(startsOf(tool, k)) = Cardinality(donesOf(tool, j))

persists == {j \in 1..Len(emitted) : emitted[j].hook = "tool_result_persist"}

\* the invocation completed within the window of its start
inTime(j) == emitted[j].at - started[invOf(j)].at <= MaxAgeMs

\* The statement of C16 as written: with completions in start order, every
\* tool_result_persist record that is joined is joined with the start of its
\* own invocation, never with that of another.
C16_Original ==
    \A j \in persists : emitted[j].st # <<>> => emitted[j].st[1].id = invOf(j)

\* C16: provided that, within each (session, tool) pair, invocations complete
\* in the order in which they started and each of them completes within
\* 30000 ms of its start, every tool_result_persist record is joined with the
\* start observation of that same invocation.
C16_JoinedWithOwnStart ==
    \A j \in persists :
        (\A i \in donesOf(toolOfCall(emitted[j]), j) : inTime(i)) =>
            /\ emitted[j].st # <<>>
            /\ emitted[j].st[1].id = invOf(j)
            /\ emitted[j].st[1].tsMs = started[invOf(j)].at

\* two invocations of one tool were pending together and completed in time in
\* start order, each joined with its own start
C16_Witness ==
    /\ Len(started) = 2
    /\ toolOfStart(started[1]) = Str("exec") /\ toolOfStart(started[2]) = Str("exec")
    /\ Cardinality(persists) = 2
    /\ \A j \in persists : inTime(j) /\ started[2].at < emitted[j].at
    /\ \E j \in persists : emitted[j].st # <<>> /\ emitted[j].st[1].id = 2

-----------------------------------------------------------------------------
(* Age-based eviction at each access to a queue, checked in SpecCorr *)

-----------------------------------------------------------------------------
(* The export and the disconnect of its client, checked in SpecExport *)

\* C18: once the client of an export has disconnected, the next step of the
\* read loop is its end: no further line is written to the response.
C18_Original ==
    [][ (exp.pc = "stream" /\ exp.closed /\ exp' # exp) =>
            (exp'.pc = "done" /\ exp'.out = exp.out) ]_vars

\* the client of an export disconnected while lines of the ledger were still
\* to be read
C18_Witness ==
    /\ exp.pc = "stream"
    /\ exp.closed
    /\ exp.pos <= Len(exportLines)
    /\ exportLines[exp.pos] # <<>>

-----------------------------------------------------------------------------
(* Which operations change the identity maps, checked in SpecIdent *)

\* the step is a run of refreshSessionMaps, from either interval
refreshStep == idOp'.kind \in {"refresh", "retry"}

\* The statement of C19 as written: only refreshSessionMaps changes any of the
\* three maps.
C19_Original ==
    [][ theMaps' # theMaps => refreshStep ]_vars

\* resolveLabel finds no label for the session of the key in the maps as they
\* are: none in sessionMetaMap under its session id and no cron job name
noLabelKnown(sessionKey) ==
    LET sid == IF Truthy(sessionKey)
               THEN Get(Get(sessionMap, JsString(sessionKey)), "sessionId") ELSE Undef
        sk == JsString(Or(sessionKey, Str("")))
    IN /\ ~(Truthy(sid) /\ Truthy(Get(Get(sessionMetaMap, JsString(sid)), "label")))
       /\ ~(includes(sk, ":cron:") /\ Truthy(Get(cronJobNameMap, afterCronMarker(sk))))

\* C19: sessionMap and cronJobNameMap are changed only by refreshSessionMaps.
\* sessionMetaMap is changed by refreshSessionMaps and, besides, by
\* resolveLabel's one-shot reload: only when resolveLabel finds no label in
\* sessionMetaMap and no cron job name for the session, and then it becomes
\* the non-empty map just loaded from session-meta.json. resolveChannel and
\* every other operation leave all three maps unchanged.
C19_MapsChangedOnlyByReload ==
    [][ /\ (sessionMap' # sessionMap \/ cronJobNameMap' # cronJobNameMap) => refreshStep
        /\ sessionMetaMap' # sessionMetaMap =>
              \/ refreshStep
              \/ /\ idOp'.kind = "resolve"
                 /\ noLabelKnown(idOp'.sessionKey)
                 /\ sessionMetaMap' = loadSessionMetaMap(files.meta)
                 /\ keyCount(sessionMetaMap') > 0 ]_vars

\* a resolution has replaced sessionMetaMap by the map it reloaded
C19_Witness ==
    /\ idOp.kind = "resolve"
    /\ idOp.changed
    /\ sessionMetaMap = loadSessionMetaMap(files.meta)

-----------------------------------------------------------------------------
(* SpecStop: the timers of the service, observers that subscribe and        *)
(* disconnect, and stop()                                                   *)

\* stop(ctx), service.js:611-613 and 616-620: clearInterval(sessionMapTimer)
Stop ==
    /\ ~timers.stopped
    /\ timers' = [timers EXCEPT !.sessionMapTimer = FALSE, !.stopped = TRUE]
    /\ idOp' = [kind |-> "stop", reloaded |-> {}]
    /\ UNCHANGED <<files, sessionMap, sessionMetaMap, cronJobNameMap, retry, identRest>>

InitStop ==
    /\ InitCorrIdle
    /\ InitSanIdle
    /\ InitLedgerIdle
    /\ InitPipeIdle
    /\ files \in [sessions : {Unreadable}, meta : MetaFiles, cron : {Unreadable}]
    /\ sessionMap = loadSessionMap(files.sessions)
    /\ sessionMetaMap = loadSessionMetaMap(files.meta)
    /\ cronJobNameMap = loadCronJobNameMap(files.cron)
    /\ retry = (keyCount(sessionMetaMap) = 0)
    /\ idOp = NoIdOp
    /\ timers = StartTimers(retry)

NextStop ==
    \/ \E c \in MetaFiles : IdentFileWrite("meta", c)
    \/ IdentRefresh
    \/ IdentRetry
    \/ IdentRetryTimeout
    \/ \E c \in SoloClients : EventsConnect(c)
    \/ \E c \in SoloClients : EventsPing(c)
    \/ \E c \in SoloClients : EventsClose(c)
    \/ \E c \in SoloClients : EventsBreak(c)
    \/ Stop

SpecStop == InitStop /\ [][NextStop]_vars

\* the heartbeat interval of an observer runs from the subscription to the
\* close of the request, service.js:477-485
pinging(c) == conns[c].state = "open"

\* C20: after stop() no timer of the service is active: not the refresh
\* interval, not the retry interval or its cut-off timeout, not the heartbeat
\* of any observer.
C20_Original ==
    timers.stopped =>
        /\ ~timers.sessionMapTimer
        /\ ~retry
        /\ ~timers.retryTimeout
        /\ \A c \in ClientIds : ~pinging(c)

\* what stop() does cancel: the refresh interval
C20_StopClearsRefresh == timers.stopped => ~timers.sessionMapTimer

\* stop() has run while the retry interval, its cut-off timeout and the
\* heartbeat of an observer were active
C20_Witness ==
    /\ timers.stopped
    /\ retry /\ timers.retryTimeout
    /\ \E c \in ClientIds : pinging(c)

-----------------------------------------------------------------------------
(* SpecDrop: two observers that connect, break and close while notes are    *)
(* published                                                                *)

MaxDropEmits == 3   \* records in SpecDrop

DropEmit(ok) ==
    /\ Len(emitted) < MaxDropEmits
    /\ NoteRequest(FanoutNote, ok)

NextDrop ==
    \/ \E ok \in BOOLEAN : DropEmit(ok)
    \/ \E c \in ClientIds : EventsConnect(c)
    \/ \E c \in ClientIds : EventsClose(c)
    \/ \E c \in ClientIds : EventsBreak(c)

SpecDrop == InitPipe /\ [][NextDrop]_vars

\* C21: when the write of a record to an observer fails during a publish, that
\* observer is removed from the registry and no later record is written to it;
\* the handler that published answers as it does without the failure; and
\* every other registered observer is written that record and, while it stays
\* registered and its own writes succeed, every later one.
C21_FailedObserverDropped ==
    /\ \A i \in 1..Len(emitted) :
          /\ emitted[i].dead \subseteq emitted[i].reg
          /\ emitted[i].to = emitted[i].reg \ emitted[i].dead
          /\ \A k \in (i + 1)..Len(emitted) : emitted[k].reg \cap emitted[i].dead = {}
          /\ clients \cap emitted[i].dead = {}
          /\ \A d \in emitted[i].to :
                (conns[d].state = "open" /\ ~conns[d].broken) =>
                    /\ d \in clients
                    /\ \A k \in (i + 1)..Len(emitted) : d \in emitted[k].to
    /\ \A c \in ClientIds : delivered(conns[c].out) = linesFor(c, emitted, toOf)
    /\ Len(emitted) > 0 =>
          /\ resp.route = "note" /\ resp.status = 200
          /\ Len(parseLines(ledger.txt)) = Len(appended)

\* two observers were registered when the write of a record to one of them
\* failed; the other was written that record and a later one, the failed one
\* neither
C21_Witness ==
    \E c, d \in ClientIds :
        /\ c # d
        /\ Len(emitted) = 3
        /\ emitted[1].to = {c, d}
        /\ emitted[2].reg = {c, d} /\ emitted[2].dead = {c}
        /\ emitted[3].reg = {d}
        /\ Len(delivered(conns[c].out)) = 1
        /\ Len(delivered(conns[d].out)) = 3
        /\ clients = {d}

-----------------------------------------------------------------------------
(* Values of the other types (function, symbol, bigint), checked in SpecSan *)

\* C22: for a value that is no string, number, boolean, null, sequence or
\* mapping, the sanitizer's output is what the string checks give on the
\* value's string form: <redacted:LEN> when the string form is longer than
\* maxString, a typed marker when it has secret-token shape, the string form
\* otherwise.
C22_Original ==
    (sanOut # <<>> /\ sanIn.t = "other") =>
        sanOut[1] = Str(sanitizeString(sanIn.x, sanMax))

\* what the sanitizer does return for such a value: its string form, whatever
\* its length
C22_StringFormOnly ==
    (sanOut # <<>> /\ sanIn.t = "other") => sanOut[1] = Str(sanIn.x)

\* the sanitizer was applied to a value of another type whose string form is
\* longer than maxString
C22_Witness ==
    /\ sanOut # <<>>
    /\ sanIn.t = "other"
    /\ Len(sanIn.x) > sanMax

-----------------------------------------------------------------------------
(* SpecPairs: start and completion signals of several sessions and tools,   *)
(* some without a session key or a tool name                                *)

MaxPairEmits == 2   \* records in SpecPairs

\* hook contexts: two sessions and none
PairContexts == { InSession, Obj(<< <<"sessionKey", Str("s2")>> >>), NoSession }

\* before_tool_call events: two tools and an empty tool name
PairStartEvents ==
    InvStartEvents \cup
    { Obj(<< <<"toolName", Str("")>>, <<"params", Obj(<< <<"command", Str("ls -la")>> >>)>> >>) }

\* tool_result_persist events: two tools and none
PairDoneEvents == InvDoneEvents \cup { Obj(<< <<"message", Obj(<<>>)>> >>) }

PairStart(event, hookCtx) == BeforeToolCall(event, hookCtx)

PairDone(event, hookCtx) ==
    /\ Len(emitted) < MaxPairEmits
    /\ ToolResultPersist(event, hookCtx, TRUE)

\* the clock crosses the window once
PairTick ==
    /\ now = 0
    /\ now' = 2 * PipeTickMs
    /\ UNCHANGED <<recentStarts, nextId, ledgerVars, sessionMetaMap, pipeVars, pipeIdle>>

NextPairs ==
    \/ \E e \in PairStartEvents, h \in PairContexts : PairStart(e, h)
    \/ \E e \in PairDoneEvents, h \in PairContexts : PairDone(e, h)
    \/ PairTick

SpecPairs == InitPipe /\ [][NextPairs]_vars

\* the pair of a before_tool_call and of a tool_result_persist
pairOfStart(b) == <<plain(Get(b.hookCtx, "sessionKey")), plain(Get(b.event, "toolName"))>>
pairOfCall(e) == <<plain(Get(e.hookCtx, "sessionKey")), plain(toolOfCall(e))>>

keyed(p) == p[1] # "" /\ p[2] # ""

\* what popRecentStart returned is an observation a before_tool_call of the
\* same pair recorded, returned once; and nothing is recorded under and nothing
\* is returned for a pair without session key or tool name
matchedWithinPair ==
    /\ \A j \in persists :
          emitted[j].st # <<>> =>
              LET st == emitted[j].st[1]
              IN /\ st.id \in 1..Len(started)
                 /\ pairOfStart(started[st.id]) = pairOfCall(emitted[j])
                 /\ keyed(pairOfCall(emitted[j]))
                 /\ st.tsMs = started[st.id].at
                 /\ st.summary = computedSummary(started[st.id])
                 /\ \A i \in persists :
                       (i # j /\ emitted[i].st # <<>>) => emitted[i].st[1].id # st.id
    /\ \A p \in Pairs :
          /\ ~keyed(p) => recentStarts[p] = <<>>
          /\ \A i \in 1..Len(recentStarts[p]) :
                /\ recentStarts[p][i].id \in 1..Len(started)
                /\ pairOfStart(started[recentStarts[p][i].id]) = p

\* the pair of the signal handled in the step, <<>> when the step handles none
steppedPair ==
    IF Len(started') > Len(started) THEN <<pairOfStart(started'[Len(started')])>>
    ELSE IF Len(emitted') > Len(emitted) THEN <<pairOfCall(emitted'[Len(emitted')])>>
    ELSE <<>>

\* C23: after any sequence of signals, popRecentStart(s, t) returns only an
\* observation that pushStart recorded for the same sessionKey s and toolName
\* t; a push or a pop on one pair leaves the queue of every other pair as it
\* was; and a signal with an empty or missing sessionKey or toolName records
\* nothing and matches nothing.
C23_PairsAreSeparate ==
    /\ []matchedWithinPair
    /\ [][ \A p \in Pairs :
              recentStarts'[p] # recentStarts[p] =>
                  (steppedPair = <<p>> /\ keyed(p)) ]_vars

\* observations were pending for the same tool in two sessions and for two
\* tools in one session; a completion took the one of its own pair and the
\* others are still queued
C23_Witness ==
    /\ Len(started) = 2
    /\ keyed(pairOfStart(started[1])) /\ keyed(pairOfStart(started[2]))
    /\ pairOfStart(started[1]) # pairOfStart(started[2])
    /\ \E j \in persists :
          /\ emitted[j].st # <<>>
          /\ emitted[j].st[1].id = 2
          /\ emitted[j].at >= started[2].at
    /\ Len(recentStarts[pairOfStart(started[1])]) = 1

-----------------------------------------------------------------------------
(* The records of the two completion signals, checked in SpecInv *)

afters == {j \in 1..Len(emitted) : emitted[j].hook = "after_tool_call"}

\* The statement of C24 as written: the ledger holds one record for every
\* after_tool_call and every tool_result_persist signal, and none for a
\* before_tool_call.
C24_Original ==
    Len(parseLines(ledger.txt)) = Cardinality(afters) + Cardinality(persists)

\* C24: each after_tool_call signal and each tool_result_persist signal builds
\* one record of its own and appends it when the append succeeds: the ledger
\* holds, in order, the records of the after-call and result-persisted signals
\* whose append succeeded, and nothing else; a before_tool_call appends
\* nothing.
C24_OneRecordPerAppendedSignal ==
    /\ afters \cup persists = 1..Len(emitted)
    /\ Len(parseLines(ledger.txt))
          = Cardinality({j \in afters : emitted[j].ok}) + Cardinality({j \in persists : emitted[j].ok})
    /\ ledgerHolds(SelectSeq(emitted, LAMBDA e : e.ok))
    /\ emitted = <<>> => ledger = NoFile

\* of two invocations one got both completion signals and the other none: the
\* ledger holds two records
C24_Witness ==
    /\ Len(started) = 2
    /\ Len(emitted) = 2
    /\ emitted[1].hook = "after_tool_call" /\ emitted[1].ok
    /\ emitted[2].hook = "tool_result_persist" /\ emitted[2].ok
    /\ emitted[2].st # <<>> /\ emitted[2].st[1].id = 1
    /\ started[2].at <= emitted[1].at
    /\ Len(parseLines(ledger.txt)) = 2

====
